---- MODULE Spec2Model ----
(***************************************************************************)
(* Reconciliation engine of the pangolin operator: the four reconcilers    *)
(* (PangolinOrganization, PangolinTunnel, PangolinResource,                *)
(* PangolinBinding), the object store they read and write, and the remote  *)
(* control plane they call.  One action is one whole Reconcile invocation. *)
(***************************************************************************)
EXTENDS Naturals, Integers, Sequences, FiniteSets, TLC

VARIABLES
    org,      \* the PangolinOrganization object as persisted in the store
    tun,      \* the PangolinTunnel object as persisted in the store
    res,      \* the PangolinResource objects as persisted, by name
    bnd,      \* the PangolinBinding object as persisted in the store
    svc,      \* the Service (and its Endpoints) the binding refers to
    cp,       \* the control plane: how many create calls it has served
    now,      \* the clock read by time.Now()
    last,     \* report of the most recent Reconcile invocation
    focus     \* the kind whose collaborators may fail in this behaviour

vars == <<org, tun, res, bnd, svc, cp, now, last, focus>>

----------------------------------------------------------------------------
(* Bounds of the model *)

MaxTime == 1
MaxCalls == 2
MaxGeneration == 2
MaxInventory == 2

(* Program constants *)

RequeueMinute == 60

OrganizationFinalizerName == "organization.pangolin.io/finalizer"
TunnelFinalizerName == "tunnel.pangolin.io/finalizer"
ResourceFinalizerName == "resource.pangolin.io/finalizer"
BindingFinalizerName == "binding.pangolin.io/finalizer"
\* a finalizer owned by some other controller
ForeignFinalizer == "foregroundDeletion"

Kinds == {"Organization", "Tunnel", "Resource", "Binding"}

\* the operations of the control-plane client
CreateOps == {"CreateSite", "CreateResource", "CreateTarget"}
ReadOps == {"ListOrganizations", "ListDomains", "ListSites", "GetSiteByID", "GetSiteByNiceID"}
ClientOps == CreateOps \cup ReadOps

----------------------------------------------------------------------------
(* Helpers *)

Min(S) == CHOOSE m \in S : \A n \in S : m <= n

Range(s) == {s[i] : i \in DOMAIN s}

\* a nil-able field is a set with at most one element
Nil == {}
Deref(p) == CHOOSE x \in p : TRUE

\* one request sent to the control plane
Call(op, req) == [op |-> op, req |-> req]
CallOps(calls) == {calls[i].op : i \in DOMAIN calls}

\* strconv.Itoa on the ids the control plane hands out
Itoa(n) == <<"1", "2", "3", "4", "5", "6", "7", "8", "9">>[n]

----------------------------------------------------------------------------
(* metav1.Condition and the Ready condition the reconcilers write *)

\* the condition built without its observed generation
NewConditionUnstamped(status, message, generation) ==
    [Type |-> "Ready",
     Status |-> IF status = "Ready" THEN "True" ELSE "False",
     Reason |-> IF status = "Ready" THEN "ReconcileSuccess" ELSE "ReconcileError",
     Message |-> message,
     LastTransitionTime |-> now,
     ObservedGeneration |-> 0]

NewCondition(status, message, generation) ==
    [Type |-> "Ready",
     Status |-> IF status = "Ready" THEN "True" ELSE "False",
     Reason |-> IF status = "Ready" THEN "ReconcileSuccess" ELSE "ReconcileError",
     Message |-> message,
     LastTransitionTime |-> now,
     ObservedGeneration |-> generation]

\* the loop without its "update" half: the new condition is always appended
AppendCondition(conds, newCond) == Append(conds, newCond)

\* the "update or append" loop shared by the organization, resource and
\* binding reconcilers: the first condition of the same type is replaced and
\* keeps its transition time unless the status flips
UpsertCondition(conds, newCond) ==
    LET same == {i \in DOMAIN conds : conds[i].Type = newCond.Type}
    IN  IF same = {}
        THEN Append(conds, newCond)
        ELSE LET i == Min(same)
                 kept == IF conds[i].Status # newCond.Status
                         THEN newCond
                         ELSE [newCond EXCEPT !.LastTransitionTime = conds[i].LastTransitionTime]
             IN  [conds EXCEPT ![i] = kept]

\* a ctrl.Result that never asks for a requeue
NeverRequeue(status) == 0

\* ctrl.Result of the three reconcilers that requeue only when not Ready
RequeueUnlessReady(status) == IF status # "Ready" THEN RequeueMinute ELSE 0

----------------------------------------------------------------------------
(* The object store *)

NoObject == [life |-> "none"]

Stored(o) == o.life = "stored"

\* the API server removes an object that carries a deletion marker and no
\* finalizer
Collect(o) ==
    IF Stored(o) /\ o.deleting /\ o.finalizers = {} THEN [life |-> "removed"] ELSE o

\* client.Update: metadata and spec are written, the status subresource is not
StoreUpdate(old, mem) == Collect([mem EXCEPT !.status = old.status])

\* client.Status().Update: only the status is written
StoreStatusUpdate(old, mem) == [old EXCEPT !.status = mem.status]

\* what one Reconcile invocation leaves in the store
Persist(old, r, writeOK) ==
    IF r.write = "update" /\ writeOK THEN StoreUpdate(old, r.obj)
    ELSE IF r.write = "status" /\ writeOK THEN StoreStatusUpdate(old, r.obj)
    ELSE old

\* the report of an invocation
Report(kind, name, r, writeOK) ==
    [kind |-> kind, name |-> name, step |-> r.step, outcome |-> r.outcome,
     write |-> r.write, err |-> (r.step = "panic" \/ (r.write # "none" /\ ~writeOK)),
     requeue |-> r.requeue, calls |-> r.calls, reads |-> r.reads]

\* the object is gone: "Ignoring since object must be deleted"
NotFoundPass ==
    [step |-> "notfound", outcome |-> "", write |-> "none", requeue |-> 0,
     calls |-> <<>>, reads |-> {}]

\* a nil pointer is dereferenced: the invocation ends with the recovered panic
\* as its error and writes nothing
PanicPass(calls, reads) ==
    [step |-> "panic", outcome |-> "", write |-> "none", requeue |-> 0,
     calls |-> calls, reads |-> reads]

\* the finalizer added in memory, followed by a status write instead of
\* client.Update
AddFinalizerStatusPass(o, fin) ==
    [step |-> "finalizer", outcome |-> "", write |-> "status", requeue |-> 0,
     calls |-> <<>>, reads |-> {},
     obj |-> [o EXCEPT !.finalizers = @ \cup {fin}]]

\* controllerutil.AddFinalizer followed by client.Update
AddFinalizerPass(o, fin) ==
    [step |-> "finalizer", outcome |-> "", write |-> "update", requeue |-> 0,
     calls |-> <<>>, reads |-> {},
     obj |-> [o EXCEPT !.finalizers = @ \cup {fin}]]

\* controllerutil.RemoveFinalizer followed by client.Update
RemoveFinalizerPass(o, fin) ==
    [step |-> "deletion", outcome |-> "", write |-> "update", requeue |-> 0,
     calls |-> <<>>, reads |-> {},
     obj |-> [o EXCEPT !.finalizers = @ \ {fin}]]

----------------------------------------------------------------------------
(* PangolinOrganization *)

OrgStatus0 ==
    [Status |-> "", OrganizationID |-> "", OrganizationName |-> "", Subnet |-> "",
     BindingMode |-> "", Domains |-> <<>>, DefaultDomainID |-> "",
     Conditions |-> <<>>, ObservedGeneration |-> 0]

NewOrganization(spec, fins) ==
    [life |-> "stored", deleting |-> FALSE, finalizers |-> fins, generation |-> 1,
     spec |-> spec, status |-> OrgStatus0]

\* organizations and domain inventories the control plane may report
Org1 == [OrgID |-> "org1", Name |-> "one", Subnet |-> "100.90.128.0/24"]
Org2 == [OrgID |-> "org2", Name |-> "two", Subnet |-> "100.90.129.0/24"]

Domain(id, base, verified) ==
    [DomainID |-> id, BaseDomain |-> base, Verified |-> verified, Type |-> "ns"]

Failed == [ok |-> FALSE, data |-> <<>>]
Answer(data) == [ok |-> TRUE, data |-> data]

\* reconcileOrganization taking the first organization of the list whatever
\* spec.organizationId says
reconcileOrganizationFirst(st, spec, orgs) ==
    IF ~orgs.ok
    THEN [err |-> "failed to list organizations", status |-> st]
    ELSE IF Len(orgs.data) = 0
    THEN [err |-> "no organizations found", status |-> st]
    ELSE [err |-> "",
          status |-> [st EXCEPT !.OrganizationID = orgs.data[1].OrgID,
                                !.OrganizationName = orgs.data[1].Name,
                                !.Subnet = orgs.data[1].Subnet,
                                !.BindingMode = IF spec.OrganizationID # ""
                                                THEN "Bound" ELSE "Discovered"]]

\* reconcileOrganization: bind to spec.organizationId or discover the first
reconcileOrganization(st, spec, orgs) ==
    IF ~orgs.ok
    THEN [err |-> "failed to list organizations", status |-> st]
    ELSE IF spec.OrganizationID # ""
    THEN LET hit == {i \in DOMAIN orgs.data : orgs.data[i].OrgID = spec.OrganizationID}
         IN  IF hit = {}
             THEN [err |-> "organization not found", status |-> st]
             ELSE LET o == orgs.data[Min(hit)]
                  IN  [err |-> "",
                       status |-> [st EXCEPT !.OrganizationID = o.OrgID,
                                             !.OrganizationName = o.Name,
                                             !.Subnet = o.Subnet,
                                             !.BindingMode = "Bound"]]
    ELSE IF Len(orgs.data) = 0
    THEN [err |-> "no organizations found", status |-> st]
    ELSE [err |-> "",
          status |-> [st EXCEPT !.OrganizationID = orgs.data[1].OrgID,
                                !.OrganizationName = orgs.data[1].Name,
                                !.Subnet = orgs.data[1].Subnet,
                                !.BindingMode = "Discovered"]]

\* resolveDomainToID with its two loops in the other order: by base domain
\* first, then by domain id
resolveDomainToIDNameFirst(domainInput, domains) ==
    LET byID == {i \in DOMAIN domains : domains[i].DomainID = domainInput}
        byName == {i \in DOMAIN domains : domains[i].BaseDomain = domainInput}
    IN  IF byName # {} THEN [err |-> FALSE, id |-> domains[Min(byName)].DomainID]
        ELSE IF byID # {} THEN [err |-> FALSE, id |-> domains[Min(byID)].DomainID]
        ELSE [err |-> TRUE, id |-> ""]

\* resolveDomainToID: by exact domain id first, then by exact base domain
resolveDomainToID(domainInput, domains) ==
    LET byID == {i \in DOMAIN domains : domains[i].DomainID = domainInput}
        byName == {i \in DOMAIN domains : domains[i].BaseDomain = domainInput}
    IN  IF byID # {} THEN [err |-> FALSE, id |-> domains[Min(byID)].DomainID]
        ELSE IF byName # {} THEN [err |-> FALSE, id |-> domains[Min(byName)].DomainID]
        ELSE [err |-> TRUE, id |-> ""]

\* reconcileDomains without the fallback to the first verified domain
reconcileDomainsNoFallback(st, spec, domains) ==
    IF st.OrganizationID = ""
    THEN [err |-> "organization ID not available", status |-> st, called |-> FALSE]
    ELSE IF ~domains.ok
    THEN [err |-> "failed to list domains", status |-> st, called |-> TRUE]
    ELSE LET r == resolveDomainToID(spec.DefaultDomain, domains.data)
         IN  [err |-> "", called |-> TRUE,
              status |-> IF spec.DefaultDomain # "" /\ ~r.err
                         THEN [st EXCEPT !.Domains = domains.data, !.DefaultDomainID = r.id]
                         ELSE [st EXCEPT !.Domains = domains.data]]

\* reconcileDomains adding the listed domains to the inventory it holds
reconcileDomainsAppending(st, spec, domains) ==
    IF st.OrganizationID = ""
    THEN [err |-> "organization ID not available", status |-> st, called |-> FALSE]
    ELSE IF ~domains.ok
    THEN [err |-> "failed to list domains", status |-> st, called |-> TRUE]
    ELSE [err |-> "", called |-> TRUE,
          status |-> [st EXCEPT !.Domains = IF Len(@) < MaxInventory
                                            THEN @ \o domains.data ELSE @]]

\* reconcileDomains: store the inventory and resolve the default domain
reconcileDomains(st, spec, domains) ==
    IF st.OrganizationID = ""
    THEN [err |-> "organization ID not available", status |-> st, called |-> FALSE]
    ELSE IF ~domains.ok
    THEN [err |-> "failed to list domains", status |-> st, called |-> TRUE]
    ELSE LET crd == domains.data
             st1 == [st EXCEPT !.Domains = crd]
             r == resolveDomainToID(spec.DefaultDomain, crd)
             st2 == IF spec.DefaultDomain # "" /\ ~r.err
                    THEN [st1 EXCEPT !.DefaultDomainID = r.id]
                    ELSE st1
             verified == {i \in DOMAIN crd : crd[i].Verified}
             st3 == IF st2.DefaultDomainID = "" /\ Len(crd) > 0 /\ verified # {}
                    THEN [st2 EXCEPT !.DefaultDomainID = crd[Min(verified)].DomainID]
                    ELSE st2
         IN  [err |-> "", status |-> st3, called |-> TRUE]

\* updateOrganizationStatus returning the error of an Error pass without
\* writing the status
updateOrganizationStatusAborting(o, st, status, message, calls, reads) ==
    [step |-> "publish", outcome |-> status,
     write |-> IF status = "Error" THEN "none" ELSE "status",
     requeue |-> RequeueUnlessReady(status), calls |-> calls, reads |-> reads,
     obj |-> [o EXCEPT !.status =
                [st EXCEPT !.Status = status,
                           !.ObservedGeneration = o.generation,
                           !.Conditions = UpsertCondition(st.Conditions,
                                              NewCondition(status, message, o.generation))]]]

\* updateOrganizationStatus: status, observed generation, Ready condition
updateOrganizationStatus(o, st, status, message, calls, reads) ==
    [step |-> "publish", outcome |-> status, write |-> "status",
     requeue |-> RequeueUnlessReady(status), calls |-> calls, reads |-> reads,
     obj |-> [o EXCEPT !.status =
                [st EXCEPT !.Status = status,
                           !.ObservedGeneration = o.generation,
                           !.Conditions = UpsertCondition(st.Conditions,
                                              NewCondition(status, message, o.generation))]]]

ListOrganizationsCall == Call("ListOrganizations", [path |-> "/orgs"])
ListDomainsCall(st) == Call("ListDomains", [orgID |-> st.OrganizationID])

\* handleOrganizationDeletion: nothing is deleted remotely
handleOrganizationDeletion(o) == RemoveFinalizerPass(o, OrganizationFinalizerName)

\* PangolinOrganizationReconciler.Reconcile on the object o as fetched
OrganizationReconcile(o, in) ==
    IF ~Stored(o) THEN NotFoundPass
    ELSE IF o.deleting THEN handleOrganizationDeletion(o)
    ELSE IF OrganizationFinalizerName \notin o.finalizers
    THEN AddFinalizerPass(o, OrganizationFinalizerName)
    ELSE IF ~in.secret
    THEN updateOrganizationStatus(o, o.status, "Error", "failed to get API key secret",
                                  <<>>, {"Secret"})
    ELSE LET a == reconcileOrganization(o.status, o.spec, in.orgs)
             b == reconcileDomains(a.status, o.spec, in.domains)
         IN  IF a.err # ""
             THEN updateOrganizationStatus(o, a.status, "Error", a.err,
                                           <<ListOrganizationsCall>>, {"Secret"})
             ELSE IF b.err # ""
             THEN updateOrganizationStatus(o, b.status, "Error", b.err,
                      IF b.called THEN <<ListOrganizationsCall, ListDomainsCall(b.status)>>
                                  ELSE <<ListOrganizationsCall>>, {"Secret"})
             ELSE updateOrganizationStatus(o, b.status, "Ready", "Organization is ready",
                      <<ListOrganizationsCall, ListDomainsCall(b.status)>>, {"Secret"})

----------------------------------------------------------------------------
(* PangolinTunnel *)

TunnelStatus0 ==
    [SiteID |-> 0, NiceID |-> "", SiteName |-> "", SiteType |-> "", Subnet |-> "",
     Address |-> "", Online |-> FALSE, Endpoint |-> "", BindingMode |-> "",
     Status |-> "", Conditions |-> <<>>, ObservedGeneration |-> 0]

\* spec.SiteID is a *int: the empty set is nil
NewTunnel(spec, fins) ==
    [life |-> "stored", deleting |-> FALSE, finalizers |-> fins, generation |-> 1,
     spec |-> spec, status |-> TunnelStatus0]

\* a pangolin.Site as the control plane reports it; mode "zero" is an answer
\* without a site id, mode "offline" a site that is not connected
Site(id, nice, name, type, mode) ==
    [SiteID |-> IF mode = "zero" THEN 0 ELSE id,
     NiceID |-> nice, Name |-> name, Type |-> type,
     Subnet |-> "100.90.128.4/30", Address |-> "100.90.128.5",
     Online |-> (mode = "ok"), Endpoint |-> "edge.example.com"]

\* getOrganizationForTunnel: the organization named by spec.organizationRef
getOrganizationForTunnel(o) ==
    IF Stored(o) THEN [err |-> "", org |-> o]
    ELSE [err |-> "failed to get organization", org |-> o]

\* reconcileSite looking the site up by nice id whenever spec carries one
reconcileSiteNiceFirst(t, orgID, siteMode, created) ==
    IF t.spec.SiteID # Nil \/ t.spec.NiceID # ""
    THEN LET op == IF t.spec.NiceID = ""
                   THEN Call("GetSiteByID", [siteID |-> Deref(t.spec.SiteID)])
                   ELSE Call("GetSiteByNiceID", [orgID |-> orgID, niceID |-> t.spec.NiceID])
             site == IF t.spec.NiceID = ""
                     THEN Site(Deref(t.spec.SiteID), "wolf", "bound", "newt", siteMode)
                     ELSE Site(7, t.spec.NiceID, "bound", "newt", siteMode)
         IN  IF siteMode = "fail"
             THEN [err |-> "failed to bind to existing site", status |-> t.status,
                   calls |-> <<op>>]
             ELSE [err |-> "", calls |-> <<op>>,
                   status |-> [t.status EXCEPT !.SiteID = site.SiteID,
                                               !.NiceID = site.NiceID,
                                               !.SiteName = site.Name,
                                               !.SiteType = site.Type,
                                               !.Subnet = site.Subnet,
                                               !.Address = site.Address,
                                               !.Online = site.Online,
                                               !.Endpoint = site.Endpoint,
                                               !.BindingMode = "Bound"]]
    ELSE IF t.status.SiteID = 0
    THEN LET site == Site(created + 1, "nice-" \o Itoa(created + 1), t.spec.SiteName,
                          t.spec.SiteType, siteMode)
             op == Call("CreateSite", [orgID |-> orgID, name |-> t.spec.SiteName,
                                       type |-> t.spec.SiteType])
         IN  IF siteMode = "fail"
             THEN [err |-> "failed to create site", status |-> t.status,
                   calls |-> <<op>>]
             ELSE [err |-> "", calls |-> <<op>>,
                   status |-> [t.status EXCEPT !.SiteID = site.SiteID,
                                               !.NiceID = site.NiceID,
                                               !.SiteName = site.Name,
                                               !.SiteType = site.Type,
                                               !.BindingMode = "Created"]]
    ELSE [err |-> "", status |-> t.status, calls |-> <<>>]

\* reconcileSite: bind to the site named in spec, or create one once
reconcileSite(t, orgID, siteMode, created) ==
    IF t.spec.SiteID # Nil \/ t.spec.NiceID # ""
    THEN LET op == IF t.spec.SiteID # Nil
                   THEN Call("GetSiteByID", [siteID |-> Deref(t.spec.SiteID)])
                   ELSE Call("GetSiteByNiceID", [orgID |-> orgID, niceID |-> t.spec.NiceID])
             site == IF t.spec.SiteID # Nil
                     THEN Site(Deref(t.spec.SiteID), "wolf", "bound", "newt", siteMode)
                     ELSE Site(7, t.spec.NiceID, "bound", "newt", siteMode)
         IN  IF siteMode = "fail"
             THEN [err |-> "failed to bind to existing site", status |-> t.status,
                   calls |-> <<op>>]
             ELSE [err |-> "", calls |-> <<op>>,
                   status |-> [t.status EXCEPT !.SiteID = site.SiteID,
                                               !.NiceID = site.NiceID,
                                               !.SiteName = site.Name,
                                               !.SiteType = site.Type,
                                               !.Subnet = site.Subnet,
                                               !.Address = site.Address,
                                               !.Online = site.Online,
                                               !.Endpoint = site.Endpoint,
                                               !.BindingMode = "Bound"]]
    ELSE IF t.status.SiteID = 0
    THEN LET site == Site(created + 1, "nice-" \o Itoa(created + 1), t.spec.SiteName,
                          t.spec.SiteType, siteMode)
             op == Call("CreateSite", [orgID |-> orgID, name |-> t.spec.SiteName,
                                       type |-> t.spec.SiteType])
         IN  IF siteMode = "fail"
             THEN [err |-> "failed to create site", status |-> t.status,
                   calls |-> <<op>>]
             ELSE [err |-> "", calls |-> <<op>>,
                   status |-> [t.status EXCEPT !.SiteID = site.SiteID,
                                               !.NiceID = site.NiceID,
                                               !.SiteName = site.Name,
                                               !.SiteType = site.Type,
                                               !.BindingMode = "Created"]]
    ELSE [err |-> "", status |-> t.status, calls |-> <<>>]

\* reconcileNewtSecret and reconcileNewtDeployment: both return nil on every
\* path
reconcileNewtSecret(t) == ""
reconcileNewtDeployment(t) == ""

\* updateStatus of the tunnel reconciler: the condition list is replaced by
\* the new condition, and the result always asks for a requeue
updateStatus(t, st, status, message, calls, reads) ==
    [step |-> "publish", outcome |-> status, write |-> "status",
     requeue |-> RequeueMinute, calls |-> calls, reads |-> reads,
     obj |-> [t EXCEPT !.status =
                [st EXCEPT !.Status = status,
                           !.ObservedGeneration = t.generation,
                           !.Conditions = <<NewCondition(status, message, t.generation)>>]]]

\* handleDeletion as declared in pangolintunnel_controller.go
handleDeletion(t) == RemoveFinalizerPass(t, TunnelFinalizerName)

\* handleDeletion as declared in pangolintunnel_helpers.go: returns without
\* touching the object
handleDeletionHelpers(t) ==
    [step |-> "deletion", outcome |-> "", write |-> "none", requeue |-> 0,
     calls |-> <<>>, reads |-> {}, obj |-> t]

\* Reconcile of the tunnel without the checks on the organization it read:
\* the site is reconciled whatever the organization's status and id are
TunnelReconcileUngated(t, o, created, in) ==
    IF ~Stored(t) THEN NotFoundPass
    ELSE IF t.deleting THEN handleDeletion(t)
    ELSE IF TunnelFinalizerName \notin t.finalizers
    THEN AddFinalizerPass(t, TunnelFinalizerName)
    ELSE IF getOrganizationForTunnel(o).err # ""
    THEN updateStatus(t, t.status, "Error", getOrganizationForTunnel(o).err, <<>>,
                      {"Organization"})
    ELSE LET s == reconcileSite(t, o.status.OrganizationID, in.site, created)
         IN  updateStatus(t, s.status, IF s.err # "" THEN "Error" ELSE "Ready",
                          IF s.err # "" THEN s.err ELSE "Tunnel is ready", s.calls,
                          {"Organization", "Secret"})

\* PangolinTunnelReconciler.Reconcile on the tunnel t as fetched; o is the
\* organization object in the store.  The package declares handleDeletion
\* twice; in.helpers says which body the build linked.
TunnelReconcile(t, o, created, in) ==
    IF ~Stored(t) THEN NotFoundPass
    ELSE IF t.deleting
    THEN (IF in.helpers THEN handleDeletionHelpers(t) ELSE handleDeletion(t))
    ELSE IF TunnelFinalizerName \notin t.finalizers
    THEN AddFinalizerPass(t, TunnelFinalizerName)
    ELSE LET g == getOrganizationForTunnel(o)
         IN  IF g.err # ""
             THEN updateStatus(t, t.status, "Error", g.err, <<>>, {"Organization"})
             ELSE IF o.status.Status # "Ready"
             THEN updateStatus(t, t.status, "Waiting", "Waiting for organization to be ready",
                               <<>>, {"Organization"})
             ELSE IF ~in.secret
             THEN updateStatus(t, t.status, "Error", "failed to get API key secret",
                               <<>>, {"Organization", "Secret"})
             ELSE IF o.status.OrganizationID = ""
             THEN updateStatus(t, t.status, "Error", "Organization missing organization ID",
                               <<>>, {"Organization", "Secret"})
             ELSE LET s == reconcileSite(t, o.status.OrganizationID, in.site, created)
                  IN  IF s.err # ""
                      THEN updateStatus(t, s.status, "Error", s.err, s.calls,
                                        {"Organization", "Secret"})
                      ELSE IF reconcileNewtSecret(t) # ""
                      THEN updateStatus(t, s.status, "Error", reconcileNewtSecret(t),
                                        s.calls, {"Organization", "Secret"})
                      ELSE IF reconcileNewtDeployment(t) # ""
                      THEN updateStatus(t, s.status, "Error", reconcileNewtDeployment(t),
                                        s.calls, {"Organization", "Secret"})
                      ELSE updateStatus(t, s.status, "Ready", "Tunnel is ready", s.calls,
                                        {"Organization", "Secret"})

----------------------------------------------------------------------------
(* PangolinResource *)

ResourceStatus0 ==
    [ResourceID |-> "", TargetID |-> "", Status |-> "", URL |-> "", ProxyEndpoint |-> "",
     FullDomain |-> "", ResolvedDomainID |-> "", BindingMode |-> "",
     Conditions |-> <<>>, ObservedGeneration |-> 0]

NewResource(spec, fins, owner) ==
    [life |-> "stored", deleting |-> FALSE, finalizers |-> fins, generation |-> 1,
     owner |-> owner, spec |-> spec, status |-> ResourceStatus0]

\* strconv.Atoi as used by mustParseInt: 0 when the text is no number
mustParseInt(s) ==
    IF \E n \in 1..9 : Itoa(n) = s THEN CHOOSE n \in 1..9 : Itoa(n) = s ELSE 0

\* getTunnelForResource: the tunnel named by spec.tunnelRef
getTunnelForResource(t) ==
    IF Stored(t) THEN [err |-> "", tunnel |-> t]
    ELSE [err |-> "failed to get tunnel", tunnel |-> t]

\* resolveDomainForResource: explicit id, then explicit name, then the
\* organization's default; an empty base domain is read as "not found"
resolveDomainForResource(httpCfg, orgStatus) ==
    LET domains == orgStatus.Domains
        byID(id) == {i \in DOMAIN domains : domains[i].DomainID = id}
        baseOf(id) == IF byID(id) = {} THEN "" ELSE domains[Min(byID(id))].BaseDomain
        byName == {i \in DOMAIN domains : domains[i].BaseDomain = httpCfg.DomainName}
        done(id, base) ==
            [err |-> "", domainID |-> id, full |-> httpCfg.Subdomain \o "." \o base]
        fail(msg) == [err |-> msg, domainID |-> "", full |-> ""]
    IN  IF httpCfg.DomainID # ""
        THEN IF baseOf(httpCfg.DomainID) = ""
             THEN fail("domainId not found in organization domains")
             ELSE done(httpCfg.DomainID, baseOf(httpCfg.DomainID))
        ELSE IF httpCfg.DomainName # ""
        THEN IF byName = {}
             THEN fail("domainName not found in organization domains")
             ELSE done(domains[Min(byName)].DomainID, domains[Min(byName)].BaseDomain)
        ELSE IF orgStatus.DefaultDomainID = ""
        THEN fail("no domain specified and no default domain available")
        ELSE IF baseOf(orgStatus.DefaultDomainID) = ""
        THEN fail("default domainId not found in organization domains")
        ELSE done(orgStatus.DefaultDomainID, baseOf(orgStatus.DefaultDomainID))

\* Client.CreateResource: the answer's id, normalized from resourceId when
\* the id field is empty; n is the ordinal of the call
CreateResource(mode, n) ==
    IF mode = "id" THEN [ID |-> Itoa(n), ResourceID |-> 0]
    ELSE IF mode = "resourceId" THEN [ID |-> Itoa(n), ResourceID |-> n]
    ELSE [ID |-> "", ResourceID |-> 0]

\* Resource.EffectiveID: the id, or the numeric resourceId as text
EffectiveID(pRes) ==
    IF pRes.ID # "" THEN pRes.ID
    ELSE IF pRes.ResourceID > 0 THEN Itoa(pRes.ResourceID)
    ELSE ""

\* Client.CreateTarget: the answer's id
CreateTarget(mode, n) ==
    IF mode = "ok" THEN [ID |-> "t" \o Itoa(n)] ELSE [ID |-> ""]

\* "Bind to existing" with a create call in it
bindExistingResourceCreating(r) ==
    [err |-> "",
     calls |-> <<Call("CreateResource", [Name |-> r.spec.Name])>>,
     status |-> [r.status EXCEPT !.BindingMode = "Bound"],
     pRes |-> [ID |-> r.spec.ResourceID, ResourceID |-> 0]]

\* "Already created" reporting the binding mode of a bound resource
alreadyCreatedResourceAsBound(r) ==
    [err |-> "", calls |-> <<>>,
     status |-> [r.status EXCEPT !.BindingMode = "Bound"],
     pRes |-> [ID |-> r.status.ResourceID, ResourceID |-> 0]]

\* reconcilePangolinResource, "Bind to existing": the id named in spec is
\* taken as it is, without a call
bindExistingResource(r) ==
    [err |-> "", calls |-> <<>>,
     status |-> [r.status EXCEPT !.BindingMode = "Bound"],
     pRes |-> [ID |-> r.spec.ResourceID, ResourceID |-> 0]]

\* reconcilePangolinResource, "Already created": the id in status is reused
alreadyCreatedResource(r) ==
    [err |-> "", calls |-> <<>>,
     status |-> [r.status EXCEPT !.BindingMode = "Created"],
     pRes |-> [ID |-> r.status.ResourceID, ResourceID |-> 0]]

\* reconcilePangolinResource, proxy branch of create: *EnableProxy is read
\* while the request is built, a nil pointer when the flag is not given
NilEnableProxy(r) ==
    /\ r.spec.ResourceID = "" /\ r.status.ResourceID = ""
    /\ ~(r.spec.Protocol = "http" /\ r.spec.HTTPConfig # Nil)
    /\ r.spec.ProxyConfig # Nil
    /\ Deref(r.spec.ProxyConfig).EnableProxy = Nil

\* reconcilePangolinResource sending the protocol of the spec for an http
\* resource as well
reconcilePangolinResourceSpecProtocol(r, orgID, siteID, o, mode, n) ==
    IF r.spec.ResourceID # "" THEN bindExistingResource(r)
    ELSE IF r.status.ResourceID # "" THEN alreadyCreatedResource(r)
    ELSE IF r.spec.Protocol = "http" /\ r.spec.HTTPConfig # Nil
    THEN LET d == resolveDomainForResource(Deref(r.spec.HTTPConfig), o.status)
             st == [r.status EXCEPT !.ResolvedDomainID = d.domainID, !.FullDomain = d.full]
             op == Call("CreateResource",
                        [orgID |-> orgID, siteID |-> siteID, Name |-> r.spec.Name,
                         SiteID |-> mustParseInt(siteID), HTTP |-> TRUE,
                         Protocol |-> r.spec.Protocol,
                         Subdomain |-> Deref(r.spec.HTTPConfig).Subdomain,
                         DomainID |-> d.domainID])
         IN  IF d.err # ""
             THEN [err |-> "failed to resolve domain", calls |-> <<>>, status |-> r.status,
                   pRes |-> [ID |-> "", ResourceID |-> 0]]
             ELSE IF mode = "fail"
             THEN [err |-> "failed to create Pangolin resource", calls |-> <<op>>,
                   status |-> st, pRes |-> [ID |-> "", ResourceID |-> 0]]
             ELSE [err |-> "", calls |-> <<op>>,
                   status |-> [st EXCEPT !.BindingMode = "Created"],
                   pRes |-> CreateResource(mode, n)]
    ELSE IF r.spec.ProxyConfig # Nil
    THEN LET op == Call("CreateResource",
                        [orgID |-> orgID, siteID |-> siteID, Name |-> r.spec.Name,
                         SiteID |-> mustParseInt(siteID), HTTP |-> FALSE,
                         Protocol |-> r.spec.Protocol,
                         ProxyPort |-> Deref(r.spec.ProxyConfig).ProxyPort,
                         EnableProxy |-> Deref(Deref(r.spec.ProxyConfig).EnableProxy)])
         IN  IF mode = "fail"
             THEN [err |-> "failed to create Pangolin resource", calls |-> <<op>>,
                   status |-> r.status, pRes |-> [ID |-> "", ResourceID |-> 0]]
             ELSE [err |-> "", calls |-> <<op>>,
                   status |-> [r.status EXCEPT !.BindingMode = "Created"],
                   pRes |-> CreateResource(mode, n)]
    ELSE [err |-> "invalid resource configuration", calls |-> <<>>, status |-> r.status,
          pRes |-> [ID |-> "", ResourceID |-> 0]]

\* reconcilePangolinResource: bound by spec, already created, or create
reconcilePangolinResource(r, orgID, siteID, o, mode, n) ==
    IF r.spec.ResourceID # "" THEN bindExistingResource(r)
    ELSE IF r.status.ResourceID # "" THEN alreadyCreatedResource(r)
    ELSE IF r.spec.Protocol = "http" /\ r.spec.HTTPConfig # Nil
    THEN LET d == resolveDomainForResource(Deref(r.spec.HTTPConfig), o.status)
             st == [r.status EXCEPT !.ResolvedDomainID = d.domainID, !.FullDomain = d.full]
             op == Call("CreateResource",
                        [orgID |-> orgID, siteID |-> siteID, Name |-> r.spec.Name,
                         SiteID |-> mustParseInt(siteID), HTTP |-> TRUE, Protocol |-> "tcp",
                         Subdomain |-> Deref(r.spec.HTTPConfig).Subdomain,
                         DomainID |-> d.domainID])
         IN  IF d.err # ""
             THEN [err |-> "failed to resolve domain", calls |-> <<>>, status |-> r.status,
                   pRes |-> [ID |-> "", ResourceID |-> 0]]
             ELSE IF mode = "fail"
             THEN [err |-> "failed to create Pangolin resource", calls |-> <<op>>,
                   status |-> st, pRes |-> [ID |-> "", ResourceID |-> 0]]
             ELSE [err |-> "", calls |-> <<op>>,
                   status |-> [st EXCEPT !.BindingMode = "Created"],
                   pRes |-> CreateResource(mode, n)]
    ELSE IF r.spec.ProxyConfig # Nil
    THEN LET op == Call("CreateResource",
                        [orgID |-> orgID, siteID |-> siteID, Name |-> r.spec.Name,
                         SiteID |-> mustParseInt(siteID), HTTP |-> FALSE,
                         Protocol |-> r.spec.Protocol,
                         ProxyPort |-> Deref(r.spec.ProxyConfig).ProxyPort,
                         EnableProxy |-> Deref(Deref(r.spec.ProxyConfig).EnableProxy)])
         IN  IF mode = "fail"
             THEN [err |-> "failed to create Pangolin resource", calls |-> <<op>>,
                   status |-> r.status, pRes |-> [ID |-> "", ResourceID |-> 0]]
             ELSE [err |-> "", calls |-> <<op>>,
                   status |-> [r.status EXCEPT !.BindingMode = "Created"],
                   pRes |-> CreateResource(mode, n)]
    ELSE [err |-> "invalid resource configuration", calls |-> <<>>, status |-> r.status,
          pRes |-> [ID |-> "", ResourceID |-> 0]]

\* reconcilePangolinTarget without the reuse of status.targetId: a target is
\* created on every pass
reconcilePangolinTargetAgain(r, resourceID, mode, n) ==
    LET op == Call("CreateTarget",
                   [resourceID |-> resourceID, IP |-> r.spec.Target.IP,
                    Port |-> r.spec.Target.Port, Method |-> r.spec.Target.Method,
                    Enabled |-> Deref(r.spec.Enabled)])
    IN  IF mode = "fail"
        THEN [err |-> "failed to create Pangolin target", calls |-> <<op>>,
              target |-> [ID |-> ""]]
        ELSE [err |-> "", calls |-> <<op>>, target |-> CreateTarget(mode, n)]

\* reconcilePangolinTarget: reuse the target in status, or create one
reconcilePangolinTarget(r, resourceID, mode, n) ==
    IF r.status.TargetID # ""
    THEN [err |-> "", calls |-> <<>>, target |-> [ID |-> r.status.TargetID]]
    ELSE LET op == Call("CreateTarget",
                        [resourceID |-> resourceID, IP |-> r.spec.Target.IP,
                         Port |-> r.spec.Target.Port, Method |-> r.spec.Target.Method,
                         Enabled |-> Deref(r.spec.Enabled)])
         IN  IF mode = "fail"
             THEN [err |-> "failed to create Pangolin target", calls |-> <<op>>,
                   target |-> [ID |-> ""]]
             ELSE [err |-> "", calls |-> <<op>>, target |-> CreateTarget(mode, n)]

\* updateResourceStatus writing the id it holds back into spec.resourceId with
\* client.Update
updateResourceStatusAdopting(r, st, status, message, calls, reads) ==
    [step |-> "publish", outcome |-> status, write |-> "update",
     requeue |-> RequeueUnlessReady(status), calls |-> calls, reads |-> reads,
     obj |-> [r EXCEPT !.spec.ResourceID = "adopted"]]

\* updateResourceStatus: status, observed generation, Ready condition
updateResourceStatus(r, st, status, message, calls, reads) ==
    [step |-> "publish", outcome |-> status, write |-> "status",
     requeue |-> RequeueUnlessReady(status), calls |-> calls, reads |-> reads,
     obj |-> [r EXCEPT !.status =
                [st EXCEPT !.Status = status,
                           !.ObservedGeneration = r.generation,
                           !.Conditions = UpsertCondition(st.Conditions,
                                              NewCondition(status, message, r.generation))]]]

\* handleResourceDeletion recording the deletion in the status before the
\* finalizer goes
handleResourceDeletionPublishing(r) ==
    updateResourceStatus(r, r.status, "Error", "Resource is being deleted", <<>>, {})

\* handleResourceDeletion: nothing is deleted remotely
handleResourceDeletion(r) == RemoveFinalizerPass(r, ResourceFinalizerName)

\* Reconcile of the resource without the check that the tunnel it read is
\* Ready
ResourceReconcileUngated(r, t, o, n, in) ==
    IF ~Stored(r) THEN NotFoundPass
    ELSE IF r.deleting THEN handleResourceDeletion(r)
    ELSE IF ResourceFinalizerName \notin r.finalizers
    THEN AddFinalizerPass(r, ResourceFinalizerName)
    ELSE IF getTunnelForResource(t).err # ""
    THEN updateResourceStatus(r, r.status, "Error", getTunnelForResource(t).err, <<>>,
                              {"Tunnel"})
    ELSE IF getOrganizationForTunnel(o).err # ""
    THEN updateResourceStatus(r, r.status, "Error", getOrganizationForTunnel(o).err, <<>>,
                              {"Tunnel", "Organization"})
    ELSE IF o.status.Status # "Ready"
    THEN updateResourceStatus(r, r.status, "Waiting", "Waiting for organization to be ready",
                              <<>>, {"Tunnel", "Organization"})
    ELSE IF o.status.OrganizationID = "" \/ t.status.SiteID = 0
    THEN updateResourceStatus(r, r.status, "Error", "missing ID", <<>>,
                              {"Tunnel", "Organization", "Secret"})
    ELSE IF NilEnableProxy(r)
    THEN PanicPass(<<>>, {"Tunnel", "Organization", "Secret"})
    ELSE LET a == reconcilePangolinResource(r, o.status.OrganizationID,
                                            Itoa(t.status.SiteID), o, in.resource,
                                            n.resource)
         IN  updateResourceStatus(r, a.status, IF a.err # "" THEN "Error" ELSE "Ready",
                                  IF a.err # "" THEN a.err ELSE "Resource is ready",
                                  a.calls, {"Tunnel", "Organization", "Secret"})

\* Reconcile of the resource without the check that reconcilePangolinResource
\* came back with a resource id
ResourceReconcileAnyID(r, t, o, n, in) ==
    IF ~Stored(r) THEN NotFoundPass
    ELSE IF r.deleting THEN handleResourceDeletion(r)
    ELSE IF ResourceFinalizerName \notin r.finalizers
    THEN AddFinalizerPass(r, ResourceFinalizerName)
    ELSE IF getTunnelForResource(t).err # ""
    THEN updateResourceStatus(r, r.status, "Error", getTunnelForResource(t).err, <<>>,
                              {"Tunnel"})
    ELSE IF t.status.Status # "Ready"
    THEN updateResourceStatus(r, r.status, "Waiting", "Waiting for tunnel to be ready",
                              <<>>, {"Tunnel"})
    ELSE IF getOrganizationForTunnel(o).err # ""
    THEN updateResourceStatus(r, r.status, "Error", getOrganizationForTunnel(o).err, <<>>,
                              {"Tunnel", "Organization"})
    ELSE IF o.status.Status # "Ready"
    THEN updateResourceStatus(r, r.status, "Waiting", "Waiting for organization to be ready",
                              <<>>, {"Tunnel", "Organization"})
    ELSE LET reads == {"Tunnel", "Organization", "Secret"}
             orgID == o.status.OrganizationID
             siteID == Itoa(t.status.SiteID)
             a == reconcilePangolinResource(r, orgID, siteID, o, in.resource, n.resource)
             rid == EffectiveID(a.pRes)
             b == reconcilePangolinTarget([r EXCEPT !.status = a.status], rid, in.target,
                                          n.target)
             st == [a.status EXCEPT
                      !.ResourceID = rid,
                      !.TargetID = b.target.ID,
                      !.URL = IF r.spec.Protocol = "http" /\ r.spec.HTTPConfig # Nil
                              THEN "https://" \o a.status.FullDomain ELSE @,
                      !.ProxyEndpoint =
                              IF ~(r.spec.Protocol = "http" /\ r.spec.HTTPConfig # Nil)
                                 /\ r.spec.ProxyConfig # Nil
                              THEN t.status.Endpoint \o ":"
                                     \o Itoa(Deref(r.spec.ProxyConfig).ProxyPort)
                              ELSE @]
         IN  IF ~in.secret
             THEN updateResourceStatus(r, r.status, "Error", "failed to get API key secret",
                                       <<>>, reads)
             ELSE IF orgID = ""
             THEN updateResourceStatus(r, r.status, "Error",
                                       "Organization missing organization ID", <<>>, reads)
             ELSE IF t.status.SiteID = 0
             THEN updateResourceStatus(r, r.status, "Error", "Tunnel missing site ID",
                                       <<>>, reads)
             ELSE IF NilEnableProxy(r)
             THEN PanicPass(<<>>, reads)
             ELSE IF a.err # ""
             THEN updateResourceStatus(r, a.status, "Error", a.err, a.calls, reads)
             ELSE IF r.status.TargetID = "" /\ r.spec.Enabled = Nil
             THEN PanicPass(a.calls, reads)
             ELSE IF b.err # ""
             THEN updateResourceStatus(r, a.status, "Error", b.err, a.calls \o b.calls, reads)
             ELSE updateResourceStatus(r, st, "Ready", "Resource is ready",
                                       a.calls \o b.calls, reads)

\* PangolinResourceReconciler.Reconcile on the resource r as fetched; t and o
\* are the tunnel and organization objects in the store, n the ordinals of
\* the next create-resource and create-target calls
ResourceReconcile(r, t, o, n, in) ==
    IF ~Stored(r) THEN NotFoundPass
    ELSE IF r.deleting THEN handleResourceDeletion(r)
    ELSE IF ResourceFinalizerName \notin r.finalizers
    THEN AddFinalizerPass(r, ResourceFinalizerName)
    ELSE IF getTunnelForResource(t).err # ""
    THEN updateResourceStatus(r, r.status, "Error", getTunnelForResource(t).err, <<>>,
                              {"Tunnel"})
    ELSE IF t.status.Status # "Ready"
    THEN updateResourceStatus(r, r.status, "Waiting", "Waiting for tunnel to be ready",
                              <<>>, {"Tunnel"})
    ELSE IF getOrganizationForTunnel(o).err # ""
    THEN updateResourceStatus(r, r.status, "Error", getOrganizationForTunnel(o).err, <<>>,
                              {"Tunnel", "Organization"})
    ELSE IF o.status.Status # "Ready"
    THEN updateResourceStatus(r, r.status, "Waiting", "Waiting for organization to be ready",
                              <<>>, {"Tunnel", "Organization"})
    ELSE LET reads == {"Tunnel", "Organization", "Secret"}
             orgID == o.status.OrganizationID
             siteID == Itoa(t.status.SiteID)
             a == reconcilePangolinResource(r, orgID, siteID, o, in.resource, n.resource)
             rid == EffectiveID(a.pRes)
             b == reconcilePangolinTarget([r EXCEPT !.status = a.status], rid, in.target,
                                          n.target)
             st == [a.status EXCEPT
                      !.ResourceID = rid,
                      !.TargetID = b.target.ID,
                      !.URL = IF r.spec.Protocol = "http" /\ r.spec.HTTPConfig # Nil
                              THEN "https://" \o a.status.FullDomain ELSE @,
                      !.ProxyEndpoint =
                              IF ~(r.spec.Protocol = "http" /\ r.spec.HTTPConfig # Nil)
                                 /\ r.spec.ProxyConfig # Nil
                              THEN t.status.Endpoint \o ":"
                                     \o Itoa(Deref(r.spec.ProxyConfig).ProxyPort)
                              ELSE @]
         IN  IF ~in.secret
             THEN updateResourceStatus(r, r.status, "Error", "failed to get API key secret",
                                       <<>>, reads)
             ELSE IF orgID = ""
             THEN updateResourceStatus(r, r.status, "Error",
                                       "Organization missing organization ID", <<>>, reads)
             ELSE IF t.status.SiteID = 0
             THEN updateResourceStatus(r, r.status, "Error", "Tunnel missing site ID",
                                       <<>>, reads)
             ELSE IF NilEnableProxy(r)
             THEN PanicPass(<<>>, reads)
             ELSE IF a.err # ""
             THEN updateResourceStatus(r, a.status, "Error", a.err, a.calls, reads)
             ELSE IF rid = ""
             THEN updateResourceStatus(r, a.status, "Error",
                                       "empty resource id after CreateResource", a.calls, reads)
             ELSE IF r.status.TargetID = "" /\ r.spec.Enabled = Nil
             THEN PanicPass(a.calls, reads)
             ELSE IF b.err # ""
             THEN updateResourceStatus(r, a.status, "Error", b.err, a.calls \o b.calls, reads)
             ELSE updateResourceStatus(r, st, "Ready", "Resource is ready",
                                       a.calls \o b.calls, reads)

----------------------------------------------------------------------------
(* PangolinBinding *)

BindingStatus0 ==
    [GeneratedResourceName |-> "", URL |-> "", ProxyEndpoint |-> "",
     ServiceEndpoints |-> <<>>, Status |-> "", Conditions |-> <<>>,
     ObservedGeneration |-> 0]

\* +kubebuilder:validation:Enum of PangolinBindingStatus.Status
BindingStatusEnum == {"Creating", "Ready", "Error", "Updating"}

NewBinding(name, spec, fins) ==
    [life |-> "stored", deleting |-> FALSE, finalizers |-> fins, generation |-> 1,
     name |-> name, spec |-> spec, status |-> BindingStatus0]

\* the name of the generated PangolinResource
ChildName(bindingName) == bindingName \o "-binding"

\* getServiceForBinding: the Service named by spec.serviceRef
getServiceForBinding(s) ==
    IF s.exists THEN "" ELSE "failed to get service"

\* getOrganizationForBinding: the organization named by spec.organizationRef
getOrganizationForBinding(o) ==
    IF Stored(o) THEN "" ELSE "failed to get organization"

\* ensureTunnelForBinding falling back to the tunnel of the namespace when
\* the spec names none
ensureTunnelForBindingDefault(b, t) ==
    IF Stored(t) THEN [err |-> "", read |-> TRUE]
    ELSE [err |-> "failed to get tunnel", read |-> TRUE]

\* ensureTunnelForBinding: the tunnel named by spec.tunnelRef, which is
\* required
ensureTunnelForBinding(b, t) ==
    IF b.spec.TunnelRef # Nil
    THEN (IF Stored(t) THEN [err |-> "", read |-> TRUE]
          ELSE [err |-> "failed to get tunnel", read |-> TRUE])
    ELSE [err |-> "tunnelRef is required - automatic tunnel creation not yet implemented",
          read |-> FALSE]

\* the PangolinResource reconcileResourceForBinding builds when none exists
GeneratedResource(b, s) ==
    NewResource(
        [TunnelRef |-> Deref(b.spec.TunnelRef),
         Name |-> b.spec.ServiceRef.Name \o "-" \o b.spec.Protocol,
         Protocol |-> b.spec.Protocol,
         HTTPConfig |-> IF b.spec.Protocol = "http" /\ b.spec.HTTPConfig # Nil
                        THEN b.spec.HTTPConfig ELSE Nil,
         ProxyConfig |-> IF ~(b.spec.Protocol = "http" /\ b.spec.HTTPConfig # Nil)
                            /\ b.spec.ProxyConfig # Nil
                         THEN b.spec.ProxyConfig ELSE Nil,
         Target |-> [IP |-> s.ClusterIP, Port |-> b.spec.ServicePort, Method |-> "http"],
         Enabled |-> Nil,
         ResourceID |-> ""],
        {}, b.name)

\* reconcileResourceForBinding: look the generated resource up by name and
\* create it when it is not found
reconcileResourceForBinding(b, s, child, createOK) ==
    IF Stored(child)
    THEN [err |-> "", resource |-> child, create |-> FALSE]
    ELSE IF ~createOK
    THEN [err |-> "failed to create resource", resource |-> child, create |-> FALSE]
    ELSE [err |-> "", resource |-> GeneratedResource(b, s), create |-> TRUE]

\* updateServiceEndpoints assigning the collected addresses before it looks
\* at the error of the read
updateServiceEndpointsClearing(st, s) ==
    IF ~s.endpointsOK THEN [st EXCEPT !.ServiceEndpoints = <<>>]
    ELSE [st EXCEPT !.ServiceEndpoints = s.addresses]

\* updateServiceEndpoints: record the addresses of the Service's Endpoints
updateServiceEndpoints(st, s) ==
    IF ~s.endpointsOK THEN st ELSE [st EXCEPT !.ServiceEndpoints = s.addresses]

\* updateBindingStatus: status, observed generation, Ready condition
updateBindingStatus(b, st, status, message, reads, created) ==
    [step |-> "publish", outcome |-> status, write |-> "status",
     requeue |-> RequeueUnlessReady(status), calls |-> <<>>, reads |-> reads,
     created |-> created,
     obj |-> [b EXCEPT !.status =
                [st EXCEPT !.Status = status,
                           !.ObservedGeneration = b.generation,
                           !.Conditions = UpsertCondition(st.Conditions,
                                              NewCondition(status, message, b.generation))]]]

\* handleBindingDeletion: the generated resource goes with its owner
handleBindingDeletion(b) == RemoveFinalizerPass(b, BindingFinalizerName)

\* Reconcile of the binding without the check that the resource it read is
\* Ready
BindingReconcileChildUngated(b, s, o, t, child, in) ==
    IF ~Stored(b) THEN NotFoundPass
    ELSE IF b.deleting THEN handleBindingDeletion(b)
    ELSE IF BindingFinalizerName \notin b.finalizers
    THEN AddFinalizerPass(b, BindingFinalizerName)
    ELSE LET e == ensureTunnelForBinding(b, t)
             c == reconcileResourceForBinding(b, s, child, in.create)
             auto == b.spec.AutoUpdateTargets = Nil \/ Deref(b.spec.AutoUpdateTargets)
             st1 == IF auto THEN updateServiceEndpoints(b.status, s) ELSE b.status
             st == [st1 EXCEPT !.GeneratedResourceName = ChildName(b.name),
                               !.URL = c.resource.status.URL,
                               !.ProxyEndpoint = c.resource.status.ProxyEndpoint]
             R0 == {"Service"}
             R1 == {"Service", "Organization"}
             R2 == IF e.read THEN R1 \cup {"Tunnel"} ELSE R1
             R3 == R2 \cup {"Resource"}
         IN  IF getServiceForBinding(s) # ""
             THEN updateBindingStatus(b, b.status, "Error", getServiceForBinding(s), R0, FALSE)
             ELSE IF getOrganizationForBinding(o) # ""
             THEN updateBindingStatus(b, b.status, "Error", getOrganizationForBinding(o),
                                      R1, FALSE)
             ELSE IF o.status.Status # "Ready"
             THEN updateBindingStatus(b, b.status, "Waiting",
                                      "Waiting for organization to be ready", R1, FALSE)
             ELSE IF e.err # ""
             THEN updateBindingStatus(b, b.status, "Error", e.err, R2, FALSE)
             ELSE IF t.status.Status # "Ready"
             THEN updateBindingStatus(b, b.status, "Waiting",
                                      "Waiting for tunnel to be ready", R2, FALSE)
             ELSE IF c.err # ""
             THEN updateBindingStatus(b, b.status, "Error", c.err, R3, FALSE)
             ELSE updateBindingStatus(b, st, "Ready", "Binding is ready",
                                      IF auto THEN R3 \cup {"Endpoints"} ELSE R3, c.create)

\* PangolinBindingReconciler.Reconcile on the binding b as fetched; s, o, t
\* and child are the Service, organization, tunnel and generated resource in
\* the store
BindingReconcile(b, s, o, t, child, in) ==
    IF ~Stored(b) THEN NotFoundPass
    ELSE IF b.deleting THEN handleBindingDeletion(b)
    ELSE IF BindingFinalizerName \notin b.finalizers
    THEN AddFinalizerPass(b, BindingFinalizerName)
    ELSE LET e == ensureTunnelForBinding(b, t)
             c == reconcileResourceForBinding(b, s, child, in.create)
             auto == b.spec.AutoUpdateTargets = Nil \/ Deref(b.spec.AutoUpdateTargets)
             st1 == IF auto THEN updateServiceEndpoints(b.status, s) ELSE b.status
             st == [st1 EXCEPT !.GeneratedResourceName = ChildName(b.name),
                               !.URL = c.resource.status.URL,
                               !.ProxyEndpoint = c.resource.status.ProxyEndpoint]
             R0 == {"Service"}
             R1 == {"Service", "Organization"}
             R2 == IF e.read THEN R1 \cup {"Tunnel"} ELSE R1
             R3 == R2 \cup {"Resource"}
         IN  IF getServiceForBinding(s) # ""
             THEN updateBindingStatus(b, b.status, "Error", getServiceForBinding(s), R0, FALSE)
             ELSE IF getOrganizationForBinding(o) # ""
             THEN updateBindingStatus(b, b.status, "Error", getOrganizationForBinding(o),
                                      R1, FALSE)
             ELSE IF o.status.Status # "Ready"
             THEN updateBindingStatus(b, b.status, "Waiting",
                                      "Waiting for organization to be ready", R1, FALSE)
             ELSE IF e.err # ""
             THEN updateBindingStatus(b, b.status, "Error", e.err, R2, FALSE)
             ELSE IF t.status.Status # "Ready"
             THEN updateBindingStatus(b, b.status, "Waiting",
                                      "Waiting for tunnel to be ready", R2, FALSE)
             ELSE IF c.err # ""
             THEN updateBindingStatus(b, b.status, "Error", c.err, R3, FALSE)
             ELSE IF c.resource.status.Status # "Ready"
             THEN updateBindingStatus(b, b.status, "Waiting",
                                      "Waiting for resource to be ready", R3, c.create)
             ELSE updateBindingStatus(b, st, "Ready", "Binding is ready",
                                      IF auto THEN R3 \cup {"Endpoints"} ELSE R3, c.create)

----------------------------------------------------------------------------
(* What the collaborators may answer.  The reconciler in focus sees every   *)
(* answer; for the other reconcilers the control plane and the store        *)
(* behave, and only the credential lookup may fail.                         *)

Inventory0 == <<Domain("d1", "example.com", TRUE)>>
Inventory1 == <<Domain("d1", "a.com", TRUE), Domain("d2", "b.com", FALSE)>>
Inventory2 == <<Domain("d2", "b.com", FALSE)>>

OrgAnswers == {Failed, Answer(<<>>), Answer(<<Org1>>), Answer(<<Org2, Org1>>)}
DomainAnswers ==
    {Failed, Answer(<<>>), Answer(Inventory0), Answer(Inventory1), Answer(Inventory2)}

\* a store write issued on a context of its own, which the cancellation of
\* the invocation does not reach
WriteDetached(in) == in.write

\* What one pass meets outside the object: whether the credential lookup
\* succeeds, what the client calls answer, whether the store write succeeds.
\* An answer the pass cannot reach (the step before it failed) is fixed.
\* cancel says that the context of the invocation is cancelled while a client
\* call is in flight: that call fails, and so does what the pass does on the
\* context afterwards.
OrgInputSet(rich) ==
    {in \in [secret : IF rich THEN BOOLEAN ELSE {TRUE},
             orgs : IF rich THEN OrgAnswers ELSE {Answer(<<Org1>>)},
             domains : IF rich THEN DomainAnswers ELSE {Answer(Inventory0)},
             cancel : IF rich THEN BOOLEAN ELSE {FALSE},
             write : IF rich THEN BOOLEAN ELSE {TRUE}] :
        /\ ~in.secret => in.orgs = Answer(<<Org1>>)
        /\ (~in.secret \/ in.orgs = Failed) => in.domains = Answer(Inventory0)
        /\ in.cancel => (in.secret /\ in.write /\ (in.orgs = Failed \/ in.domains = Failed))}

\* the two sets a pass draws from, each computed once
RichOrgInputs == OrgInputSet(TRUE)
PlainOrgInputs == OrgInputSet(FALSE)
OrgInputs(rich) == IF rich THEN RichOrgInputs ELSE PlainOrgInputs

TunnelInputSet(rich) ==
    {in \in [secret : IF rich THEN BOOLEAN ELSE {TRUE},
             site : IF rich THEN {"fail", "ok", "zero", "offline"} ELSE {"ok"},
             helpers : IF rich THEN BOOLEAN ELSE {FALSE},
             cancel : IF rich THEN BOOLEAN ELSE {FALSE},
             write : IF rich THEN BOOLEAN ELSE {TRUE}] :
        /\ ~in.secret => in.site = "ok"
        /\ in.cancel => (in.secret /\ in.write /\ in.site = "fail")}

\* the two sets a pass draws from, each computed once
RichTunnelInputs == TunnelInputSet(TRUE)
PlainTunnelInputs == TunnelInputSet(FALSE)
TunnelInputs(rich) == IF rich THEN RichTunnelInputs ELSE PlainTunnelInputs

ResourceInputSet(rich) ==
    {in \in [secret : IF rich THEN BOOLEAN ELSE {TRUE},
             resource : IF rich THEN {"fail", "id", "resourceId", "empty"} ELSE {"id"},
             target : IF rich THEN {"fail", "ok", "empty"} ELSE {"ok"},
             cancel : IF rich THEN BOOLEAN ELSE {FALSE},
             write : IF rich THEN BOOLEAN ELSE {TRUE}] :
        /\ ~in.secret => in.resource = "id"
        /\ (~in.secret \/ in.resource \in {"fail", "empty"}) => in.target = "ok"
        /\ in.cancel => (/\ in.secret /\ in.write
                         /\ in.resource \in {"fail", "id"}
                         /\ (in.resource = "fail" \/ in.target = "fail"))}

\* the two sets a pass draws from, each computed once
RichResourceInputs == ResourceInputSet(TRUE)
PlainResourceInputs == ResourceInputSet(FALSE)
ResourceInputs(rich) == IF rich THEN RichResourceInputs ELSE PlainResourceInputs

\* the store write of a pass, client.Update or Status().Update, is issued on
\* the context of the invocation and fails when that context is cancelled
WriteOK(in) == in.write /\ ~in.cancel

BindingInputs(rich) ==
    [create : IF rich THEN BOOLEAN ELSE {TRUE},
     write : IF rich THEN BOOLEAN ELSE {TRUE}]

(* The objects a behaviour starts from *)

BindingName == "expose"
ResourceNames == {"web", ChildName(BindingName)}

PlainOrgSpec == [OrganizationID |-> "org1", DefaultDomain |-> ""]
OrgSpecs ==
    {[OrganizationID |-> id, DefaultDomain |-> dd] : id \in {"", "org1"}, dd \in {"", "b.com"}}

PlainTunnelSpec ==
    [OrganizationRef |-> "org", SiteName |-> "s1", SiteType |-> "newt",
     SiteID |-> Nil, NiceID |-> ""]
TunnelSpecs ==
    {[PlainTunnelSpec EXCEPT !.SiteID = id, !.NiceID = nice] :
        id \in {Nil, {7}}, nice \in {"", "wolf"}}

HTTPConfigs == {[Subdomain |-> "app", DomainID |-> "", DomainName |-> ""]}
\* enableProxy is held by pointer
ProxyConfigs == {[ProxyPort |-> 5, EnableProxy |-> {TRUE}]}

ResourceSpec(protocol, http, proxy, rid) ==
    [TunnelRef |-> "tun", Name |-> "web", Protocol |-> protocol,
     HTTPConfig |-> http, ProxyConfig |-> proxy,
     Target |-> [IP |-> "10.0.0.5", Port |-> 8, Method |-> "http"],
     Enabled |-> {TRUE}, ResourceID |-> rid]
PlainResourceSpec == ResourceSpec("http", HTTPConfigs, Nil, "")
ResourceSpecs ==
    {ResourceSpec("http", HTTPConfigs, Nil, rid) : rid \in {"", "r9"}}
    \cup {ResourceSpec("tcp", Nil, ProxyConfigs, rid) : rid \in {"", "r9"}}
    \cup {ResourceSpec("tcp", Nil, Nil, "")}

PlainBindingSpec ==
    [ServiceRef |-> [Name |-> "backend", Namespace |-> "default"],
     OrganizationRef |-> "org", TunnelRef |-> Nil, Protocol |-> "http",
     ServicePort |-> 8, HTTPConfig |-> HTTPConfigs, ProxyConfig |-> Nil,
     AutoUpdateTargets |-> Nil]
BindingSpecs ==
    {[PlainBindingSpec EXCEPT !.TunnelRef = ref, !.AutoUpdateTargets = auto] :
        ref \in {Nil, {"tun"}}, auto \in {Nil, {FALSE}}}

Services ==
    {[exists |-> e, ClusterIP |-> "10.0.0.5", endpointsOK |-> ok,
      addresses |-> <<"10.1.0.7">>] : e \in BOOLEAN, ok \in BOOLEAN}
NoService == [exists |-> FALSE, ClusterIP |-> "", endpointsOK |-> FALSE, addresses |-> <<>>]

\* an object starts without finalizers, or (the plain spec only) held by the
\* finalizer of another controller
Starts(specs, plain) ==
    {c \in [spec : specs, fins : {{}, {ForeignFinalizer}}] : c.fins = {} \/ c.spec = plain}

NoReport ==
    [kind |-> "", name |-> "", step |-> "init", outcome |-> "", write |-> "none",
     err |-> FALSE, requeue |-> 0, calls |-> <<>>, reads |-> {}]

\* A reconciler runs in its own scenario and in the Binding scenario, where the
\* whole chain converges; in the other scenarios the objects it owns stay as
\* the scenario starts them.  In the scenario "None" every reconciler runs and
\* no collaborator fails.
Runs(kind) == focus \in {kind, "Binding", "None"}

\* the Organization and the Tunnel after their reconcilers have converged
PlainOrgInput == CHOOSE in \in OrgInputs(FALSE) : TRUE
PlainTunnelInput == CHOOSE in \in TunnelInputs(FALSE) : TRUE
OrganizationAfter(o) == Persist(o, OrganizationReconcile(o, PlainOrgInput), TRUE)
TunnelAfter(t, o) == Persist(t, TunnelReconcile(t, o, 0, PlainTunnelInput), TRUE)
ReadyOrganization ==
    OrganizationAfter(OrganizationAfter(NewOrganization(PlainOrgSpec, {})))
ReadyTunnel ==
    TunnelAfter(TunnelAfter(NewTunnel(PlainTunnelSpec, {}), ReadyOrganization),
                ReadyOrganization)

Init ==
    /\ focus \in Kinds
    /\ now = 0
    /\ org \in IF focus = "Organization"
               THEN {NewOrganization(c.spec, c.fins) : c \in Starts(OrgSpecs, PlainOrgSpec)}
               ELSE IF focus = "Binding"
               THEN {NoObject, NewOrganization(PlainOrgSpec, {})}
               ELSE {NoObject, NewOrganization(PlainOrgSpec, {}), ReadyOrganization}
    /\ tun \in IF focus = "Tunnel"
               THEN {NewTunnel(c.spec, c.fins) : c \in Starts(TunnelSpecs, PlainTunnelSpec)}
               ELSE IF focus = "Organization" THEN {NoObject}
               ELSE IF focus = "Binding"
               THEN {NoObject, NewTunnel(PlainTunnelSpec, {})}
               ELSE {NoObject, NewTunnel(PlainTunnelSpec, {}), ReadyTunnel}
    /\ res \in IF focus = "Resource"
               THEN {[n \in ResourceNames |->
                        IF n = "web" THEN NewResource(c.spec, c.fins, "") ELSE NoObject] :
                            c \in Starts(ResourceSpecs, PlainResourceSpec)}
               ELSE {[n \in ResourceNames |-> NoObject]}
    /\ bnd \in IF focus = "Binding"
               THEN {NewBinding(BindingName, c.spec, c.fins) : c \in Starts(BindingSpecs, PlainBindingSpec)}
               ELSE {NoObject}
    /\ svc \in IF focus = "Binding" THEN Services ELSE {NoService}
    /\ cp = [CreateSite |-> IF tun = ReadyTunnel THEN 1 ELSE 0,
             CreateResource |-> [n \in ResourceNames |-> 0],
             CreateTarget |-> [n \in ResourceNames |-> 0]]
    /\ last = NoReport

----------------------------------------------------------------------------
(* Actions: one Reconcile invocation each, and the environment *)

Count(calls, op) == Cardinality({i \in DOMAIN calls : calls[i].op = op})

\* What one invocation can do in the current state: its result r for each
\* thing the collaborators may answer, with whether its store write succeeds.
\* Answers the invocation does not read give the same outcome.
OrganizationOutcomes ==
    {[write |-> WriteOK(in), r |-> OrganizationReconcile(org, in)] :
        in \in OrgInputs(focus = "Organization")}

TunnelOutcomes ==
    {[write |-> WriteOK(in), r |-> TunnelReconcile(tun, org, cp.CreateSite, in)] :
        in \in TunnelInputs(focus = "Tunnel")}

ResourceOutcomes(name) ==
    {[write |-> WriteOK(in),
      r |-> ResourceReconcile(res[name], tun, org,
                              [resource |-> cp.CreateResource[name] + 1,
                               target |-> cp.CreateTarget[name] + 1], in)] :
        in \in ResourceInputs(focus = "Resource")}

BindingOutcomes ==
    {[write |-> in.write,
      r |-> BindingReconcile(bnd, svc, org, tun, res[ChildName(BindingName)], in)] :
        in \in BindingInputs(focus = "Binding")}

OrganizationPass ==
    /\ Runs("Organization")
    /\ org.life # "none"
    /\ \E p \in OrganizationOutcomes :
         /\ org' = Persist(org, p.r, p.write)
         /\ last' = Report("Organization", "org", p.r, p.write)
    /\ UNCHANGED <<tun, res, bnd, svc, cp, now, focus>>

TunnelPass ==
    /\ Runs("Tunnel")
    /\ tun.life # "none"
    /\ \E p \in TunnelOutcomes :
         /\ cp.CreateSite + Count(p.r.calls, "CreateSite") <= MaxCalls
         /\ tun' = Persist(tun, p.r, p.write)
         /\ cp' = [cp EXCEPT !.CreateSite = @ + Count(p.r.calls, "CreateSite")]
         /\ last' = Report("Tunnel", "tun", p.r, p.write)
    /\ UNCHANGED <<org, res, bnd, svc, now, focus>>

ResourcePassOf(name) ==
    /\ Runs("Resource")
    /\ res[name].life # "none"
    /\ \E p \in ResourceOutcomes(name) :
         /\ cp.CreateResource[name] + Count(p.r.calls, "CreateResource") <= MaxCalls
         /\ cp.CreateTarget[name] + Count(p.r.calls, "CreateTarget") <= MaxCalls
         /\ res' = [res EXCEPT ![name] = Persist(@, p.r, p.write)]
         /\ cp' = [cp EXCEPT
                     !.CreateResource[name] = @ + Count(p.r.calls, "CreateResource"),
                     !.CreateTarget[name] = @ + Count(p.r.calls, "CreateTarget")]
         /\ last' = Report("Resource", name, p.r, p.write)
    /\ UNCHANGED <<org, tun, bnd, svc, now, focus>>

ResourcePass == \E name \in ResourceNames : ResourcePassOf(name)

BindingPass ==
    /\ bnd.life # "none"
    /\ \E p \in BindingOutcomes :
         /\ bnd' = Persist(bnd, p.r, p.write)
         /\ res' = IF p.r.step = "publish" /\ p.r.created
                   THEN [res EXCEPT ![ChildName(BindingName)] = GeneratedResource(bnd, svc)]
                   ELSE res
         /\ last' = Report("Binding", BindingName, p.r, p.write)
    /\ UNCHANGED <<org, tun, svc, cp, now, focus>>

\* time passes
Tick ==
    /\ now < MaxTime
    /\ now' = now + 1
    /\ UNCHANGED <<org, tun, res, bnd, svc, cp, last, focus>>

\* kubectl delete: the deletion marker is set, and the object is removed at
\* once when it carries no finalizer
MarkDeleted(o) == Collect([o EXCEPT !.deleting = TRUE])

\* another controller finishes and removes its own finalizer
DropForeign(o) == Collect([o EXCEPT !.finalizers = @ \ {ForeignFinalizer}])

Deletable(o) == Stored(o) /\ ~o.deleting
Held(o) == Stored(o) /\ ForeignFinalizer \in o.finalizers

DeleteObject ==
    \/ /\ focus = "Organization" /\ Deletable(org)
       /\ org' = MarkDeleted(org)
       /\ UNCHANGED <<tun, res, bnd, svc, cp, now, last, focus>>
    \/ /\ focus = "Tunnel" /\ Deletable(tun)
       /\ tun' = MarkDeleted(tun)
       /\ UNCHANGED <<org, res, bnd, svc, cp, now, last, focus>>
    \/ /\ focus = "Resource" /\ Deletable(res["web"])
       /\ res' = [res EXCEPT !["web"] = MarkDeleted(@)]
       /\ UNCHANGED <<org, tun, bnd, svc, cp, now, last, focus>>
    \/ /\ focus = "Binding" /\ Deletable(bnd)
       /\ bnd' = MarkDeleted(bnd)
       /\ UNCHANGED <<org, tun, res, svc, cp, now, last, focus>>

ForeignFinalizerRemoved ==
    \/ /\ Held(org)
       /\ org' = DropForeign(org)
       /\ UNCHANGED <<tun, res, bnd, svc, cp, now, last, focus>>
    \/ /\ Held(tun)
       /\ tun' = DropForeign(tun)
       /\ UNCHANGED <<org, res, bnd, svc, cp, now, last, focus>>
    \/ /\ Held(res["web"])
       /\ res' = [res EXCEPT !["web"] = DropForeign(@)]
       /\ UNCHANGED <<org, tun, bnd, svc, cp, now, last, focus>>
    \/ /\ Held(bnd)
       /\ bnd' = DropForeign(bnd)
       /\ UNCHANGED <<org, tun, res, svc, cp, now, last, focus>>

\* kubectl edit: the user changes the bind selector of the tunnel or of the
\* resource; the API server bumps metadata.generation
EditSpec ==
    \/ /\ focus = "Tunnel" /\ Deletable(tun) /\ tun.generation < MaxGeneration
       /\ \E id \in {Nil, {7}} :
            /\ id # tun.spec.SiteID
            /\ tun' = [tun EXCEPT !.spec.SiteID = id, !.generation = @ + 1]
       /\ UNCHANGED <<org, res, bnd, svc, cp, now, last, focus>>
    \/ /\ focus = "Resource" /\ Deletable(res["web"])
       /\ res["web"].generation < MaxGeneration
       /\ \E rid \in {"", "r9"} :
            /\ rid # res["web"].spec.ResourceID
            /\ res' = [res EXCEPT !["web"].spec.ResourceID = rid,
                                  !["web"].generation = @ + 1]
       /\ UNCHANGED <<org, tun, bnd, svc, cp, now, last, focus>>

Next ==
    \/ OrganizationPass
    \/ TunnelPass
    \/ ResourcePass
    \/ BindingPass
    \/ Tick
    \/ DeleteObject
    \/ ForeignFinalizerRemoved
    \/ EditSpec

Spec == Init /\ [][Next]_vars

----------------------------------------------------------------------------
(* resolveDomainForResource on its own: every inventory of at most           *)
(* MaxInventory entries, every default and every selector combination        *)

DomainEntries ==
    {Domain(id, base, TRUE) : id \in {"d1", "d2"}, base \in {"", "a.com", "b.com"}}
DomainInventories ==
    UNION {[1..k -> DomainEntries] : k \in 0..MaxInventory}
DomainIDs == {"", "d1", "d2", "d3"}
DomainNames == {"", "a.com", "c.com"}

InitDomain ==
    /\ focus = "Resource"
    /\ now = 0
    /\ \E inv \in DomainInventories, def \in DomainIDs :
         org = [ReadyOrganization EXCEPT !.status.Domains = inv,
                                         !.status.DefaultDomainID = def]
    /\ tun = ReadyTunnel
    /\ \E id \in DomainIDs, name \in DomainNames :
         res = [n \in ResourceNames |->
                  IF n = "web"
                  THEN NewResource(
                         ResourceSpec("http",
                             {[Subdomain |-> "app", DomainID |-> id, DomainName |-> name]},
                             Nil, ""),
                         {ResourceFinalizerName}, "")
                  ELSE NoObject]
    /\ bnd = NoObject
    /\ svc = NoService
    /\ cp = [CreateSite |-> 1,
             CreateResource |-> [n \in ResourceNames |-> 0],
             CreateTarget |-> [n \in ResourceNames |-> 0]]
    /\ last = NoReport

\* the resolution is applied to the resource's selectors and the
\* organization's cached inventory; its result is reported
ResolveDomain ==
    LET d == resolveDomainForResource(Deref(res["web"].spec.HTTPConfig), org.status)
    IN  /\ last.step = "init"
        /\ last' = [NoReport EXCEPT !.kind = "Resource", !.name = "web",
                                    !.step = "resolve",
                                    !.outcome = IF d.err = "" THEN d.domainID \o "|" \o d.full
                                                ELSE "Error",
                                    !.err = d.err # "",
                                    !.reads = {"Organization"}]
        /\ UNCHANGED <<org, tun, res, bnd, svc, cp, now, focus>>

NextDomain == ResolveDomain

SpecDomain == InitDomain /\ [][NextDomain]_vars

----------------------------------------------------------------------------
(* Convergence of one Organization, one Tunnel and one Resource, with or     *)
(* without a Binding next to them, when every control-plane call and every   *)
(* store write succeeds.  No controller watches the objects it depends on:   *)
(* an object comes back to its reconciler on its own events and on the       *)
(* RequeueAfter its last pass returned.                                      *)

TunnelBindingSpec == [PlainBindingSpec EXCEPT !.TunnelRef = {"tun"}]
PlainService == CHOOSE s \in Services : s.exists /\ s.endpointsOK

\* a Resource a user has created under the name of the Binding's child
NamedLikeChild == NewResource(PlainResourceSpec, {}, "")

InitConverge ==
    /\ focus = "None"
    /\ now = 0
    /\ org = NewOrganization(PlainOrgSpec, {})
    /\ tun = NewTunnel(PlainTunnelSpec, {})
    /\ bnd \in {NoObject, NewBinding(BindingName, TunnelBindingSpec, {})}
    /\ svc = IF Stored(bnd) THEN PlainService ELSE NoService
    /\ \E child \in IF Stored(bnd) THEN {NoObject, NamedLikeChild} ELSE {NoObject} :
         res = [n \in ResourceNames |->
                  IF n = "web" THEN NewResource(PlainResourceSpec, {}, "") ELSE child]
    /\ cp = [CreateSite |-> 0,
             CreateResource |-> [n \in ResourceNames |-> 0],
             CreateTarget |-> [n \in ResourceNames |-> 0]]
    /\ last = NoReport

NextConverge ==
    \/ OrganizationPass
    \/ TunnelPass
    \/ ResourcePass
    \/ BindingPass

\* the object is due at its reconciler: it was never published (its creation
\* or the finalizer update is an event of its own), or the pass that
\* published its status returned a RequeueAfter
Due(o) == Stored(o) /\ (o.status.Status = "" \/ RequeueUnlessReady(o.status.Status) > 0)

\* the tunnel reconciler returns a RequeueAfter from every published pass
TunnelDue == Stored(tun)

\* the work queue hands every due object to its reconciler
SpecConverge ==
    /\ InitConverge /\ [][NextConverge]_vars
    /\ WF_vars(Due(org) /\ OrganizationPass)
    /\ WF_vars(TunnelDue /\ TunnelPass)
    /\ \A n \in ResourceNames : WF_vars(Due(res[n]) /\ ResourcePassOf(n))
    /\ WF_vars(Due(bnd) /\ BindingPass)

----------------------------------------------------------------------------
(* Loss of readiness: the objects of the convergence scenario, and a user    *)
(* who deletes the Organization at any moment.  The Organization's own       *)
(* reconciler gets the deletion event; nothing notifies the reconcilers of   *)
(* the Tunnel and of the Resource, which see the Organization again only     *)
(* when their own object is handed to them.                                  *)

\* kubectl delete of the Organization
OrganizationDeleted ==
    /\ Deletable(org)
    /\ org' = MarkDeleted(org)
    /\ UNCHANGED <<tun, res, bnd, svc, cp, now, last, focus>>

NextLoss ==
    \/ OrganizationPass
    \/ TunnelPass
    \/ ResourcePass
    \/ BindingPass
    \/ OrganizationDeleted

\* the deletion marker is an event of the object itself
Terminating(o) == Stored(o) /\ o.deleting

SpecLoss ==
    /\ InitConverge /\ [][NextLoss]_vars
    /\ WF_vars((Due(org) \/ Terminating(org)) /\ OrganizationPass)
    /\ WF_vars(TunnelDue /\ TunnelPass)
    /\ \A n \in ResourceNames : WF_vars(Due(res[n]) /\ ResourcePassOf(n))
    /\ WF_vars(Due(bnd) /\ BindingPass)

----------------------------------------------------------------------------
(* The dependency gates on their own: one Tunnel or Resource, its finalizer  *)
(* in place, reconciled against an Organization and a Tunnel in every        *)
(* status a writer of the store may have left them in                        *)

GateOrganizations ==
    {NoObject}
    \cup {[ReadyOrganization EXCEPT !.status.Status = s, !.status.OrganizationID = id] :
             s \in {"", "Error", "Ready"}, id \in {"", "org1"}}

GateTunnels ==
    {NoObject}
    \cup {[ReadyTunnel EXCEPT !.status.Status = s, !.status.SiteID = id] :
             s \in {"Waiting", "Error", "Ready"}, id \in {0, 1}}

InitGate ==
    /\ focus \in {"Tunnel", "Resource"}
    /\ now = 0
    /\ org \in GateOrganizations
    /\ tun \in IF focus = "Tunnel"
               THEN {NewTunnel(sp, {TunnelFinalizerName}) : sp \in TunnelSpecs}
               ELSE GateTunnels
    /\ res \in IF focus = "Resource"
               THEN {[n \in ResourceNames |->
                        IF n = "web" THEN NewResource(sp, {ResourceFinalizerName}, "")
                        ELSE NoObject] : sp \in ResourceSpecs}
               ELSE {[n \in ResourceNames |-> NoObject]}
    /\ bnd = NoObject
    /\ svc = NoService
    /\ cp = [CreateSite |-> IF focus = "Resource" THEN 1 ELSE 0,
             CreateResource |-> [n \in ResourceNames |-> 0],
             CreateTarget |-> [n \in ResourceNames |-> 0]]
    /\ last = NoReport

NextGate ==
    \/ TunnelPass
    \/ ResourcePass

SpecGate == InitGate /\ [][NextGate]_vars

----------------------------------------------------------------------------
(* PangolinBindingReconciler.Reconcile on its own: a Binding with its        *)
(* finalizer in place, reconciled against a Service, an Organization, a      *)
(* Tunnel and a Resource under the generated name in every state a writer of *)
(* the store may have left them in, while the Service's Endpoints change     *)

ExposeSpecs ==
    {[PlainBindingSpec EXCEPT !.TunnelRef = ref, !.AutoUpdateTargets = auto] :
        ref \in {Nil, {"tun"}}, auto \in {Nil, {TRUE}, {FALSE}}}

EndpointLists == {<<>>, <<"10.1.0.7">>, <<"10.1.0.7", "10.1.0.8">>}
ExposeServices ==
    {NoService}
    \cup {[exists |-> TRUE, ClusterIP |-> "10.0.0.5", endpointsOK |-> ok, addresses |-> a] :
             ok \in BOOLEAN, a \in EndpointLists}

\* the Resource under the generated name after its reconciler has converged
ResourceAfter(r) ==
    Persist(r, ResourceReconcile(r, ReadyTunnel, ReadyOrganization,
                                 [resource |-> 1, target |-> 1],
                                 CHOOSE in \in PlainResourceInputs : TRUE), TRUE)
ReadyChild == ResourceAfter(ResourceAfter(NamedLikeChild))
ExposeChildren == {NoObject, NamedLikeChild, ReadyChild}

ExposeOrganizations ==
    {NoObject}
    \cup {[ReadyOrganization EXCEPT !.status.Status = s] : s \in {"", "Error", "Ready"}}
ExposeTunnels ==
    {NoObject}
    \cup {[ReadyTunnel EXCEPT !.status.Status = s] : s \in {"Waiting", "Ready"}}

InitExpose ==
    /\ focus = "Binding"
    /\ now = 0
    /\ org \in ExposeOrganizations
    /\ tun \in ExposeTunnels
    /\ \E child \in ExposeChildren :
         res = [n \in ResourceNames |-> IF n = "web" THEN NoObject ELSE child]
    /\ bnd \in {NewBinding(BindingName, sp, {BindingFinalizerName}) : sp \in ExposeSpecs}
    /\ svc \in ExposeServices
    /\ cp = [CreateSite |-> 1,
             CreateResource |-> [n \in ResourceNames |-> 0],
             CreateTarget |-> [n \in ResourceNames |-> 0]]
    /\ last = NoReport

\* the endpoints controller rewrites the Endpoints of the Service, or the
\* read of them starts or stops failing
EndpointsChange ==
    /\ svc.exists
    /\ \E ok \in BOOLEAN, a \in EndpointLists :
         /\ svc' = [svc EXCEPT !.endpointsOK = ok, !.addresses = a]
         /\ svc' # svc
    /\ UNCHANGED <<org, tun, res, bnd, cp, now, last, focus>>

NextExpose ==
    \/ BindingPass
    \/ ResourcePass
    \/ EndpointsChange

SpecExpose == InitExpose /\ [][NextExpose]_vars

----------------------------------------------------------------------------
(* The generated Resource over time: a Binding that names its Tunnel, with   *)
(* a Ready Organization and a Ready Tunnel, while the user edits the         *)
(* Binding's service port and the Service is deleted and created again       *)
(* under another cluster address; the name of the child is free or taken by  *)
(* a Resource the user has made                                              *)

SyncPorts == {8, 9}
SyncAddresses == {"10.0.0.5", "10.0.0.6"}
SyncSpecs == {[TunnelBindingSpec EXCEPT !.ServicePort = p] : p \in SyncPorts}
SyncServices == {[PlainService EXCEPT !.ClusterIP = a] : a \in SyncAddresses}

InitSync ==
    /\ focus = "Binding"
    /\ now = 0
    /\ org = ReadyOrganization
    /\ tun = ReadyTunnel
    /\ \E child \in {NoObject, NamedLikeChild} :
         res = [n \in ResourceNames |-> IF n = "web" THEN NoObject ELSE child]
    /\ bnd \in {NewBinding(BindingName, sp, {BindingFinalizerName}) : sp \in SyncSpecs}
    /\ svc \in SyncServices
    /\ cp = [CreateSite |-> 1,
             CreateResource |-> [n \in ResourceNames |-> 0],
             CreateTarget |-> [n \in ResourceNames |-> 0]]
    /\ last = NoReport

\* kubectl edit of the Binding: another service port; the API server bumps
\* metadata.generation
BindingEdited ==
    /\ Deletable(bnd) /\ bnd.generation < MaxGeneration
    /\ \E p \in SyncPorts :
         /\ p # bnd.spec.ServicePort
         /\ bnd' = [bnd EXCEPT !.spec.ServicePort = p, !.generation = @ + 1]
    /\ UNCHANGED <<org, tun, res, svc, cp, now, last, focus>>

\* the Service is deleted and created again: it gets another cluster address
ServiceRecreated ==
    /\ svc.exists
    /\ \E a \in SyncAddresses :
         /\ a # svc.ClusterIP
         /\ svc' = [svc EXCEPT !.ClusterIP = a]
    /\ UNCHANGED <<org, tun, res, bnd, cp, now, last, focus>>

NextSync ==
    \/ BindingPass
    \/ ResourcePass
    \/ BindingEdited
    \/ ServiceRecreated

SpecSync == InitSync /\ [][NextSync]_vars

----------------------------------------------------------------------------
(* reconcilePangolinResource's create branch on its own: a Resource of every *)
(* protocol with every combination of http-config and proxy-config, against  *)
(* a Ready Tunnel and a Ready Organization                                   *)

ShapeProtocols == {"http", "tcp", "udp"}
ShapeHTTPConfigs ==
    {[Subdomain |-> sub, DomainID |-> id, DomainName |-> ""] :
        sub \in {"app", "api"}, id \in {"", "d2", "d3"}}
ShapeProxyConfigs ==
    {[ProxyPort |-> port, EnableProxy |-> flag] :
        port \in {5, 6}, flag \in {Nil, {TRUE}, {FALSE}}}
ShapeSpecs ==
    {ResourceSpec(p, h, x, "") :
        p \in ShapeProtocols,
        h \in {Nil} \cup {{c} : c \in ShapeHTTPConfigs},
        x \in {Nil} \cup {{c} : c \in ShapeProxyConfigs}}

InitShape ==
    /\ focus = "Resource"
    /\ now = 0
    /\ \E def \in {"", "d1"} :
         org = [ReadyOrganization EXCEPT !.status.Domains = Inventory1,
                                         !.status.DefaultDomainID = def]
    /\ tun = ReadyTunnel
    /\ \E sp \in ShapeSpecs :
         res = [n \in ResourceNames |->
                  IF n = "web" THEN NewResource(sp, {ResourceFinalizerName}, "")
                  ELSE NoObject]
    /\ bnd = NoObject
    /\ svc = NoService
    /\ cp = [CreateSite |-> 1,
             CreateResource |-> [n \in ResourceNames |-> 0],
             CreateTarget |-> [n \in ResourceNames |-> 0]]
    /\ last = NoReport

NextShape == ResourcePass

SpecShape == InitShape /\ [][NextShape]_vars

----------------------------------------------------------------------------
(* reconcileDomains on its own: one Organization bound to org1, with each    *)
(* default-domain selector, reconciled again and again against every         *)
(* inventory of at most MaxInventory entries the control plane may list      *)

\* a base domain may read like the id of another domain
DefaultEntries ==
    {Domain("d1", base, v) : base \in {"a.com", "d2"}, v \in BOOLEAN}
    \cup {Domain("d2", "a.com", v) : v \in BOOLEAN}
DefaultInventories == UNION {[1..k -> DefaultEntries] : k \in 0..MaxInventory}
DefaultSelectors == {"", "d1", "d2", "a.com", "c.com"}

\* what the pass meets when everything but the inventory is as in the plain
\* case
DefaultInput(inv) == [PlainOrgInput EXCEPT !.domains = Answer(inv)]

InitDefault ==
    /\ focus = "Organization"
    /\ now = 0
    /\ \E sel \in DefaultSelectors :
         org = NewOrganization([PlainOrgSpec EXCEPT !.DefaultDomain = sel],
                               {OrganizationFinalizerName})
    /\ tun = NoObject /\ bnd = NoObject /\ svc = NoService
    /\ res = [n \in ResourceNames |-> NoObject]
    /\ cp = [CreateSite |-> 0,
             CreateResource |-> [n \in ResourceNames |-> 0],
             CreateTarget |-> [n \in ResourceNames |-> 0]]
    /\ last = NoReport

\* one Reconcile invocation of the Organization, the control plane listing
\* the inventory inv
DefaultDomainPass ==
    \E inv \in DefaultInventories :
        LET r == OrganizationReconcile(org, DefaultInput(inv))
        IN  /\ org' = Persist(org, r, TRUE)
            /\ last' = Report("Organization", "org", r, TRUE)
            /\ UNCHANGED <<tun, res, bnd, svc, cp, now, focus>>

NextDefault == DefaultDomainPass

SpecDefault == InitDefault /\ [][NextDefault]_vars

----------------------------------------------------------------------------
(* The client on its own: what each operation makes of an HTTP response of   *)
(* the control plane                                                         *)

StatusCodes == {200, 201, 404, 500}
JSONContentTypes == {"application/json", "application/json; charset=utf-8"}
ContentTypes == JSONContentTypes \cup {"", "text/html"}

\* a response: status line, Content-Type header, and whether the body is a
\* JSON document and what its success field says
Responses ==
    {rsp \in [status : StatusCodes, contentType : ContentTypes,
              json : BOOLEAN, success : BOOLEAN] : ~rsp.json => ~rsp.success}

\* what an operation returns: an error, or the payload of the response
ClientError == "error"
ClientPayload == "payload"

\* ListOrganizations, ListDomains, ListSites, GetSiteByID, GetSiteByNiceID:
\* status 200, a body that decodes, success true
ReadResponse(rsp) ==
    IF rsp.status # 200 THEN ClientError
    ELSE IF ~rsp.json THEN ClientError
    ELSE IF ~rsp.success THEN ClientError
    ELSE ClientPayload

\* CreateSite: status 200 or 201, a body that decodes, success true
CreateSiteResponse(rsp) ==
    IF rsp.status # 200 /\ rsp.status # 201 THEN ClientError
    ELSE IF ~rsp.json THEN ClientError
    ELSE IF ~rsp.success THEN ClientError
    ELSE ClientPayload

\* CreateResource: a JSON content type and a body that decodes; neither the
\* status nor the success field is looked at
CreateResourceResponse(rsp) ==
    IF rsp.contentType \notin JSONContentTypes THEN ClientError
    ELSE IF ~rsp.json THEN ClientError
    ELSE ClientPayload

\* CreateTarget: as CreateResource
CreateTargetResponse(rsp) ==
    IF rsp.contentType \notin JSONContentTypes THEN ClientError
    ELSE IF ~rsp.json THEN ClientError
    ELSE ClientPayload

ClientReturn(op, rsp) ==
    IF op \in ReadOps THEN ReadResponse(rsp)
    ELSE IF op = "CreateSite" THEN CreateSiteResponse(rsp)
    ELSE IF op = "CreateResource" THEN CreateResourceResponse(rsp)
    ELSE CreateTargetResponse(rsp)

\* the control plane is about to answer the request op with the response rsp
InitClient ==
    /\ focus = "None"
    /\ now = 0
    /\ org = NoObject /\ tun = NoObject /\ bnd = NoObject /\ svc = NoService
    /\ res = [n \in ResourceNames |-> NoObject]
    /\ \E op \in ClientOps, rsp \in Responses :
         cp = [CreateSite |-> 0,
               CreateResource |-> [n \in ResourceNames |-> 0],
               CreateTarget |-> [n \in ResourceNames |-> 0],
               op |-> op, rsp |-> rsp]
    /\ last = NoReport

\* the operation returns to the reconciler
ClientCall ==
    /\ last.step = "init"
    /\ last' = [NoReport EXCEPT !.kind = "Client", !.name = cp.op, !.step = "client",
                                !.outcome = ClientReturn(cp.op, cp.rsp),
                                !.err = (ClientReturn(cp.op, cp.rsp) = ClientError),
                                !.calls = <<Call(cp.op, [path |-> ""])>>]
    /\ UNCHANGED <<org, tun, res, bnd, svc, cp, now, focus>>

NextClient == ClientCall

SpecClient == InitClient /\ [][NextClient]_vars

----------------------------------------------------------------------------
(* Properties *)

\* reconcileSite takes its create branch for a tunnel whose spec names no site
CreateMode(t) == t.spec.SiteID = Nil /\ t.spec.NiceID = ""

\* the resource's status holds both external ids
HasIds(r) == Stored(r) /\ r.status.ResourceID # "" /\ r.status.TargetID # ""

\* one step leaves the external ids of a resource as they are
SameIds(r, rNext) ==
    Stored(rNext) => /\ rNext.status.ResourceID = r.status.ResourceID
                     /\ rNext.status.TargetID = r.status.TargetID

\* one step leaves the site id of a tunnel with a site as it is, and creates
\* no site
TunnelStepIdempotent ==
    (Stored(tun) /\ CreateMode(tun) /\ tun.status.SiteID # 0)
        => /\ cp'.CreateSite = cp.CreateSite
           /\ Stored(tun') => tun'.status.SiteID = tun.status.SiteID

\* C1, as the claim states it: for a create-mode Tunnel whose status holds a
\* non-zero site id, and for a Resource whose status holds a resource id and a
\* target id, every further pass issues no create call and leaves the
\* persisted site id, resource id and target id unchanged.
C1_IdempotentCreationAsStated ==
    [][/\ TunnelStepIdempotent
       /\ \A n \in ResourceNames :
            HasIds(res[n])
                => /\ cp'.CreateResource[n] = cp.CreateResource[n]
                   /\ cp'.CreateTarget[n] = cp.CreateTarget[n]
                   /\ SameIds(res[n], res'[n])]_vars

\* C1, amended: the same, for a Resource whose spec names no resource id
\* other than the one its status holds (an explicit spec.resourceId that
\* differs from the persisted id replaces it, without a create call).
C1_IdempotentCreation ==
    [][/\ TunnelStepIdempotent
       /\ \A n \in ResourceNames :
            (HasIds(res[n]) /\ res[n].spec.ResourceID \in {"", res[n].status.ResourceID})
                => /\ cp'.CreateResource[n] = cp.CreateResource[n]
                   /\ cp'.CreateTarget[n] = cp.CreateTarget[n]
                   /\ SameIds(res[n], res'[n])]_vars

\* C2: for a Resource with no explicit resource id in spec, with store writes
\* succeeding, create-resource is called at most once, also when create-target
\* fails after create-resource has succeeded.  Stated on two consecutive
\* passes of the resource: after a pass that went on to create-target (so its
\* create-resource had succeeded) and whose write succeeded, the next pass
\* issues no create-resource call.
C2_CreateResourceAtMostOnce ==
    [][\A n \in ResourceNames :
         (/\ last.kind = "Resource" /\ last.name = n /\ ~last.err
          /\ {"CreateResource", "CreateTarget"} \subseteq CallOps(last.calls)
          /\ Stored(res[n]) /\ res[n].spec.ResourceID = "")
            => cp'.CreateResource[n] = cp.CreateResource[n]]_vars

BindingModes == {"Bound", "Created"}

\* one step of an object whose spec was never edited keeps an assigned
\* binding mode
KeepsBindingMode(o, oNext) ==
    (Stored(o) /\ Stored(oNext) /\ oNext.generation = 1)
        => /\ oNext.status.BindingMode \in BindingModes \cup {""}
           /\ o.status.BindingMode # "" => oNext.status.BindingMode = o.status.BindingMode

\* C3: for a Tunnel or Resource whose spec is not edited, status.bindingMode,
\* once assigned, is one of Bound and Created and every later pass leaves it
\* at that value, whatever the pass ends in.
C3_BindingModeExclusive ==
    [][/\ KeepsBindingMode(tun, tun')
       /\ \A n \in ResourceNames : KeepsBindingMode(res[n], res'[n])]_vars

\* C3 witness: a bound tunnel, never edited, after a later pass that ended in
\* Error
C3_Witness ==
    /\ Stored(tun) /\ tun.generation = 1 /\ tun.status.BindingMode = "Bound"
    /\ last.kind = "Tunnel" /\ last.outcome = "Error" /\ tun.status.Status = "Error"
    /\ tun.status.SiteID # 0

\* C4: a Tunnel whose spec names a site never causes a create-site call, a
\* Resource whose spec names a resource id never causes a create-resource
\* call, and no pass calls anything but the create and read operations of the
\* client (there is no delete).
C4_BindNeverCreates ==
    [][/\ (Stored(tun) /\ ~CreateMode(tun)) => cp'.CreateSite = cp.CreateSite
       /\ \A n \in ResourceNames :
            (Stored(res[n]) /\ res[n].spec.ResourceID # "")
                => cp'.CreateResource[n] = cp.CreateResource[n]
       /\ CallOps(last'.calls) \subseteq ClientOps]_vars

\* C4 witness: a resource bound by spec.resourceId is Ready, its target
\* created, and no create-resource call was made
C4_Witness ==
    /\ last.kind = "Resource" /\ last.outcome = "Ready"
    /\ Stored(res["web"]) /\ res["web"].spec.ResourceID # ""
    /\ res["web"].generation = 1
    /\ res["web"].status.BindingMode = "Bound"
    /\ cp.CreateResource["web"] = 0 /\ cp.CreateTarget["web"] = 1

\* what the resolution has to report for an inventory entry
Resolved(entry, subdomain) == entry.DomainID \o "|" \o subdomain \o "." \o entry.BaseDomain

\* C5: domain resolution priority.  An explicit domain id resolves to that id
\* when it is in the cached inventory and is an Error otherwise; else an
\* explicit name resolves to the entry with that base domain, Error if none;
\* else the organization's default id resolves when it is non-empty and in
\* the inventory, Error otherwise; the full hostname is the subdomain, a dot
\* and the base domain of the chosen entry.
C5_DomainResolutionPriority ==
    last.step = "resolve" =>
        LET cfg == Deref(res["web"].spec.HTTPConfig)
            inv == org.status.Domains
            def == org.status.DefaultDomainID
            byID(id) == {i \in DOMAIN inv : inv[i].DomainID = id}
            byName == {i \in DOMAIN inv : inv[i].BaseDomain = cfg.DomainName}
            chosen == IF cfg.DomainID # "" THEN byID(cfg.DomainID)
                      ELSE IF cfg.DomainName # "" THEN byName
                      ELSE IF def # "" THEN byID(def)
                      ELSE {}
        IN  IF chosen = {}
            THEN last.outcome = "Error"
            ELSE \E i \in chosen : last.outcome = Resolved(inv[i], cfg.Subdomain)

\* the conditions of type Ready an object holds
ReadyConditions(o) ==
    IF Stored(o)
    THEN {i \in DOMAIN o.status.Conditions : o.status.Conditions[i].Type = "Ready"}
    ELSE {}
ReadyCondition(o) == o.status.Conditions[Min(ReadyConditions(o))]

\* the step is a status write that succeeded on an object holding a Ready
\* condition, and the transition time follows the rule
TransitionTimeKept(o, oNext) ==
    (last'.write = "status" /\ ~last'.err /\ ReadyConditions(oNext) # {})
        => IF ReadyCondition(oNext).Status = ReadyCondition(o).Status
           THEN ReadyCondition(oNext).LastTransitionTime = ReadyCondition(o).LastTransitionTime
           ELSE ReadyCondition(oNext).LastTransitionTime = now

\* C6: for every kind, a status write whose Ready boolean equals the persisted
\* one leaves lastTransitionTime unchanged, and a write that flips the boolean
\* sets it to the time of the write.
C6_TransitionTimeStable ==
    [][/\ (ReadyConditions(org) # {} /\ OrganizationPass)
            => TransitionTimeKept(org, org')
       /\ (ReadyConditions(tun) # {} /\ TunnelPass)
            => TransitionTimeKept(tun, tun')
       /\ \A n \in ResourceNames :
            (ReadyConditions(res[n]) # {} /\ ResourcePassOf(n))
                => TransitionTimeKept(res[n], res'[n])
       /\ (ReadyConditions(bnd) # {} /\ BindingPass)
            => TransitionTimeKept(bnd, bnd')]_vars

\* C7: for every kind, a pass that ends in Error or Waiting asks for a
\* re-check after one minute and a pass that ends in Ready asks for none.
C7_ResultPolicy ==
    last.step = "publish" =>
        /\ last.outcome \in {"Error", "Waiting"} => last.requeue = RequeueMinute
        /\ last.outcome = "Ready" => last.requeue = 0

\* an object that carries a deletion marker
Deleting(o) == Stored(o) /\ o.deleting

\* what a pass may do to such an object
DeletionPass(o, oNext, fin) ==
    /\ cp' = cp
    /\ last'.write # "status"
    /\ (fin \in o.finalizers /\ ~last'.err)
          => \/ ~Stored(oNext)
             \/ oNext = [o EXCEPT !.finalizers = @ \ {fin}]
    /\ fin \notin o.finalizers => oNext = o

\* C8: for every kind, a pass on an object with a deletion marker and the
\* finalizer present removes the finalizer and persists, with no create call
\* and no status write; a pass on an object with a deletion marker and no
\* finalizer changes no field of the object.
C8_FinalizerOrdering ==
    [][/\ (Deleting(org) /\ OrganizationPass)
            => DeletionPass(org, org', OrganizationFinalizerName)
       /\ (Deleting(tun) /\ TunnelPass)
            => DeletionPass(tun, tun', TunnelFinalizerName)
       /\ \A n \in ResourceNames :
            (Deleting(res[n]) /\ ResourcePassOf(n))
                => DeletionPass(res[n], res'[n], ResourceFinalizerName)
       /\ (Deleting(bnd) /\ BindingPass)
            => DeletionPass(bnd, bnd', BindingFinalizerName)]_vars

\* a live object that lacks the finalizer
LacksFinalizer(o, fin) == Stored(o) /\ ~o.deleting /\ fin \notin o.finalizers

\* what a pass may do to such an object
OnlyAddsFinalizer(o, oNext, fin) ==
    /\ last'.step = "finalizer"
    /\ last'.reads = {} /\ last'.calls = <<>> /\ last'.write = "update"
    /\ cp' = cp
    /\ oNext = IF last'.err THEN o ELSE [o EXCEPT !.finalizers = @ \cup {fin}]

\* C9: a pass that finds a live object without the finalizer only adds the
\* finalizer and persists: it reads no dependency, calls nothing, writes no
\* status and fails only when the write fails, whether or not the objects it
\* refers to exist.  So no create call is issued for an object without the
\* finalizer.
C9_FinalizerFirst ==
    [][/\ (LacksFinalizer(org, OrganizationFinalizerName) /\ OrganizationPass)
            => OnlyAddsFinalizer(org, org', OrganizationFinalizerName)
       /\ (LacksFinalizer(tun, TunnelFinalizerName) /\ TunnelPass)
            => OnlyAddsFinalizer(tun, tun', TunnelFinalizerName)
       /\ \A n \in ResourceNames :
            /\ (LacksFinalizer(res[n], ResourceFinalizerName) /\ ResourcePassOf(n))
                  => OnlyAddsFinalizer(res[n], res'[n], ResourceFinalizerName)
            /\ (cp'.CreateResource[n] # cp.CreateResource[n]
                 \/ cp'.CreateTarget[n] # cp.CreateTarget[n])
                    => ResourceFinalizerName \in res[n].finalizers
       /\ (LacksFinalizer(bnd, BindingFinalizerName) /\ BindingPass)
            => OnlyAddsFinalizer(bnd, bnd', BindingFinalizerName)
       /\ cp'.CreateSite # cp.CreateSite => TunnelFinalizerName \in tun.finalizers]_vars

\* C9 witness: the finalizer was added to a resource whose tunnel does not
\* exist, and the pass returned no error
C9_Witness ==
    /\ last.kind = "Resource" /\ last.step = "finalizer" /\ ~last.err
    /\ ~Stored(tun)
    /\ Stored(res["web"]) /\ ResourceFinalizerName \in res["web"].finalizers
    /\ res["web"].status = ResourceStatus0

\* C10: after any sequence of passes every Organization, Tunnel, Resource and
\* Binding holds at most one condition of type Ready in its persisted status.
C10_AtMostOneReady ==
    /\ Cardinality(ReadyConditions(org)) <= 1
    /\ Cardinality(ReadyConditions(tun)) <= 1
    /\ \A n \in ResourceNames : Cardinality(ReadyConditions(res[n])) <= 1
    /\ Cardinality(ReadyConditions(bnd)) <= 1

\* C10 witness: an organization that was Ready and then failed to read its
\* credentials holds the one condition, now False
C10_Witness ==
    /\ Stored(org) /\ last.kind = "Organization" /\ last.outcome = "Error"
    /\ org.status.Status = "Error" /\ org.status.Domains # <<>>
    /\ Len(org.status.Conditions) = 1
    /\ org.status.Conditions[1].Status = "False"
    /\ org.status.Conditions[1].Message = "failed to get API key secret"

\* C1 witness: a pass of a created resource that already held both ids ended
\* Ready without a call
C1_Witness ==
    /\ last.kind = "Resource" /\ last.outcome = "Ready" /\ last.calls = <<>>
    /\ HasIds(res["web"]) /\ res["web"].spec.ResourceID = ""
    /\ cp.CreateResource["web"] = 1 /\ cp.CreateTarget["web"] = 1

\* the organization as a pass reads it lets the pass call the control plane
OrganizationOpen(o) ==
    Stored(o) /\ o.status.Status = "Ready" /\ o.status.OrganizationID # ""

\* the tunnel as a pass reads it lets the pass call the control plane
TunnelOpen(t) == Stored(t) /\ t.status.Status = "Ready" /\ t.status.SiteID # 0

\* one Tunnel pass obeys the gate on the organization it read
TunnelGate ==
    /\ last'.calls # <<>> => OrganizationOpen(org)
    /\ last'.step = "publish" =>
          /\ ~Stored(org) => last'.outcome = "Error"
          /\ (Stored(org) /\ org.status.Status # "Ready") => last'.outcome = "Waiting"
          /\ (Stored(org) /\ org.status.Status = "Ready"
                /\ org.status.OrganizationID = "") => last'.outcome = "Error"

\* C11: a Tunnel pass calls the control plane (get-site or create-site) only
\* if the Organization it read in that pass is Ready with a non-empty
\* organization id; an Organization that cannot be fetched gives Error, one
\* that is fetched but not Ready gives Waiting, one that is Ready with an
\* empty organization id gives Error.
C11_TunnelDependencyGate ==
    [][TunnelPass => TunnelGate]_vars

\* C11 witness: a Tunnel pass has created a site, and the Organization it
\* read is Ready with an organization id
C11_Witness ==
    /\ last.kind = "Tunnel" /\ last.outcome = "Ready"
    /\ "CreateSite" \in CallOps(last.calls)
    /\ OrganizationOpen(org) /\ tun.status.SiteID # 0

\* one Resource pass obeys the gate on the tunnel and organization it read
ResourceGate ==
    /\ last'.calls # <<>> => (TunnelOpen(tun) /\ OrganizationOpen(org))
    /\ last'.step = "publish" =>
          /\ ~Stored(tun) => last'.outcome = "Error"
          /\ (Stored(tun) /\ tun.status.Status # "Ready") => last'.outcome = "Waiting"
          /\ (Stored(tun) /\ tun.status.Status = "Ready" /\ ~Stored(org))
                => last'.outcome = "Error"
          /\ (Stored(tun) /\ tun.status.Status = "Ready" /\ Stored(org)
                /\ org.status.Status # "Ready") => last'.outcome = "Waiting"

\* C12: a Resource pass issues create-resource or create-target only if in
\* that pass its Tunnel was read as Ready with a non-zero site id and the
\* Tunnel's Organization as Ready with a non-empty organization id; a Tunnel
\* or Organization that is fetched but not Ready gives Waiting, one whose
\* fetch fails gives Error (the Organization is fetched once the Tunnel has
\* passed).
C12_ResourceDependencyGate ==
    [][ResourcePass => ResourceGate]_vars

\* C12 witness: a Resource pass has issued both create calls, and the Tunnel
\* and Organization it read are Ready with their ids
C12_Witness ==
    /\ last.kind = "Resource" /\ last.outcome = "Ready"
    /\ {"CreateResource", "CreateTarget"} \subseteq CallOps(last.calls)
    /\ TunnelOpen(tun) /\ OrganizationOpen(org)

Converged ==
    /\ Stored(org) /\ org.status.Status = "Ready" /\ org.status.OrganizationID = "org1"
    /\ Stored(tun) /\ tun.status.Status = "Ready" /\ tun.status.SiteID # 0
    /\ Stored(res["web"]) /\ res["web"].status.Status = "Ready"
    /\ cp.CreateResource["web"] = 1
    /\ res["web"].status.FullDomain = "app.example.com"
    /\ res["web"].status.URL = "https://app.example.com"

\* every create-resource request of the pass just made is for protocol tcp
CreatesOverTCP ==
    \A i \in DOMAIN last'.calls :
        last'.calls[i].op = "CreateResource" => last'.calls[i].req.Protocol = "tcp"

\* C14: from an Organization bound to org1 whose control plane reports the
\* single verified domain d1/example.com, a create-mode Tunnel (s1, newt) and
\* an http Resource with subdomain app and no domain selector, with every
\* call and write succeeding and every reconciler delivered again and again,
\* the system eventually has all three Ready, create-resource called (with
\* protocol tcp), the full hostname app.example.com and the URL
\* https://app.example.com.
C14_EndToEndConvergence ==
    /\ <>Converged
    /\ [][CreatesOverTCP]_vars

\* C14 witness: the converged state, reached by the Resource's own pass
C14_Witness ==
    /\ Converged
    /\ last.kind = "Resource" /\ last.outcome = "Ready"
    /\ {"CreateResource", "CreateTarget"} \subseteq CallOps(last.calls)
    /\ res["web"].spec.HTTPConfig = HTTPConfigs

\* the dependencies of each dependent are Ready
OrganizationReady == Stored(org) /\ org.status.Status = "Ready"
TunnelReady == Stored(tun) /\ tun.status.Status = "Ready"
ChildReady ==
    /\ Stored(res[ChildName(BindingName)])
    /\ res[ChildName(BindingName)].status.Status = "Ready"

Waits(o) == Stored(o) /\ o.status.Status = "Waiting"

\* C15: a dependent that ended a pass in Waiting leaves Waiting once the
\* Ready status of what it depends on has landed and stays (a Tunnel on its
\* Organization, a Resource on its Tunnel and Organization, a Binding on its
\* Organization, Tunnel and child Resource), by being reconciled again on
\* the requeue its Waiting pass asked for, with no edit to the dependent.
C15_ReadinessPropagates ==
    /\ (Waits(tun) /\ OrganizationReady) ~> ~Waits(tun)
    /\ \A n \in ResourceNames :
         (Waits(res[n]) /\ TunnelReady /\ OrganizationReady) ~> ~Waits(res[n])
    /\ (Waits(bnd) /\ OrganizationReady /\ TunnelReady /\ ChildReady) ~> ~Waits(bnd)

\* C15 witness: the Tunnel's Ready status has just landed while the Resource
\* that waited for it still holds Waiting
C15_Witness ==
    /\ Waits(res["web"]) /\ TunnelReady /\ OrganizationReady
    /\ last.kind = "Tunnel" /\ last.outcome = "Ready" /\ ~last.err

\* what a Ready resource has to hold
ReadyResourceComplete(r) ==
    /\ r.status.ResourceID # ""
    /\ r.status.TargetID # ""
    /\ r.spec.Protocol = "http"
          => /\ r.status.FullDomain # ""
             /\ r.status.URL = "https://" \o r.status.FullDomain
    /\ r.spec.Protocol # "http" => r.status.ProxyEndpoint # ""

\* C16: whenever a Resource's persisted status is Ready it holds a non-empty
\* resource id and a non-empty target id, for http its URL is "https://"
\* followed by the resolved full hostname, for tcp/udp its proxy endpoint is
\* set; for Bound and for Created resources, whatever create-target answered.
C16_ReadyResourceComplete ==
    \A n \in ResourceNames :
        (Stored(res[n]) /\ res[n].status.Status = "Ready") => ReadyResourceComplete(res[n])

\* the object is past the deletion and finalizer steps of its reconciler
Converging(o, fin) == Stored(o) /\ ~o.deleting /\ fin \in o.finalizers

\* the pass r has surfaced a failure: it ends by writing status Error with a
\* Ready condition that is False and carries a message
Surfaced(r) ==
    /\ r.step = "publish" /\ r.outcome = "Error" /\ r.write = "status"
    /\ r.obj.status.Status = "Error"
    /\ ReadyConditions(r.obj) # {}
    /\ ReadyCondition(r.obj).Status = "False"
    /\ ReadyCondition(r.obj).Message # ""

\* the pass r has issued the call op
Called(r, op) == op \in CallOps(r.calls)

\* a failed credential lookup or control-plane call of the Organization
\* reconciler surfaces
OrganizationSurfaces ==
    Converging(org, OrganizationFinalizerName) =>
        \A in \in OrgInputs(focus = "Organization") :
            LET r == OrganizationReconcile(org, in)
            IN  (\/ ~in.secret
                 \/ ~in.orgs.ok /\ Called(r, "ListOrganizations")
                 \/ ~in.domains.ok /\ Called(r, "ListDomains"))
                    => Surfaced(r)

\* a failed fetch of the Organization, credential lookup or site call of the
\* Tunnel reconciler surfaces
TunnelSurfaces ==
    Converging(tun, TunnelFinalizerName) =>
        \A in \in TunnelInputs(focus = "Tunnel") :
            LET r == TunnelReconcile(tun, org, cp.CreateSite, in)
            IN  (\/ ~Stored(org)
                 \/ ~in.secret /\ "Secret" \in r.reads
                 \/ in.site = "fail" /\ r.calls # <<>>)
                    => Surfaced(r)

\* a failed fetch of the Tunnel or Organization, credential lookup or create
\* call of the Resource reconciler surfaces
ResourceSurfaces ==
    \A n \in ResourceNames :
        Converging(res[n], ResourceFinalizerName) =>
            \A in \in ResourceInputs(focus = "Resource") :
                LET r == ResourceReconcile(res[n], tun, org,
                                           [resource |-> cp.CreateResource[n] + 1,
                                            target |-> cp.CreateTarget[n] + 1], in)
                IN  (\/ ~Stored(tun)
                     \/ ~Stored(org) /\ "Organization" \in r.reads
                     \/ ~in.secret /\ "Secret" \in r.reads
                     \/ in.resource = "fail" /\ Called(r, "CreateResource")
                          /\ ~Called(r, "CreateTarget")
                     \/ in.target = "fail" /\ Called(r, "CreateTarget"))
                        => Surfaced(r)

\* a failed fetch of the Service, Organization or Tunnel, or a failed
\* creation of the child Resource, surfaces in the Binding reconciler
BindingSurfaces ==
    Converging(bnd, BindingFinalizerName) =>
        \A in \in BindingInputs(focus = "Binding") :
            LET r == BindingReconcile(bnd, svc, org, tun, res[ChildName(BindingName)], in)
            IN  (\/ ~svc.exists
                 \/ ~Stored(org) /\ "Organization" \in r.reads
                 \/ ~Stored(tun) /\ "Tunnel" \in r.reads
                 \/ ~in.create /\ ~Stored(res[ChildName(BindingName)])
                      /\ "Resource" \in r.reads)
                    => Surfaced(r)

\* C17: a not-found on the primary fetch ends the pass with no error, no
\* write and no re-check; a failed dependency fetch, a failed credential
\* lookup or a failed control-plane call ends the pass by writing the Error
\* outcome (status Error, Ready condition False, a message) to the object,
\* never without a status write.
C17_FailureSurfacing ==
    [](/\ last.step = "notfound"
          => (~last.err /\ last.write = "none" /\ last.requeue = 0 /\ last.calls = <<>>)
       /\ OrganizationSurfaces
       /\ TunnelSurfaces
       /\ ResourceSurfaces
       /\ BindingSurfaces)

\* C17 witness: the credential lookup of a Resource pass failed, and the
\* object holds status Error with the cause in its Ready condition
C17_Witness ==
    /\ last.kind = "Resource" /\ last.outcome = "Error" /\ last.write = "status"
    /\ ~last.err /\ last.calls = <<>>
    /\ Stored(res["web"]) /\ res["web"].status.Status = "Error"
    /\ ReadyConditions(res["web"]) # {}
    /\ ReadyCondition(res["web"]).Status = "False"
    /\ ReadyCondition(res["web"]).Message = "failed to get API key secret"

\* the inputs of a pass whose context is cancelled while a call is in flight
Cancelled(inputs) == {in \in inputs : in.cancel}

C19_BindingChildIdentity ==
    Stored(bnd) =>
        /\ \A n \in ResourceNames :
              (Stored(res[n]) /\ res[n].owner = bnd.name) => n = ChildName(bnd.name)
        /\ (last.kind = "Binding" /\ "Resource" \in last.reads
              /\ Stored(res[ChildName(bnd.name)]))
                => res[ChildName(bnd.name)].owner = bnd.name

\* C20: every client operation (list-organizations, list-domains,
\* list-sites, get-site-by-id, get-site-by-nice-id, create-site,
\* create-resource, create-target) returns an error whenever the response
\* has a non-2xx status or a content type that is not JSON, so a failed call
\* hands no payload to the reconciler.
C20_ClientErrorContract ==
    (last.step = "client"
       /\ (cp.rsp.status \notin 200..299 \/ cp.rsp.contentType \notin JSONContentTypes))
        => last.outcome = ClientError

\* the object after a pass of its own reconciler differs from the object
\* before it in nothing but its finalizer list and its status, or is gone
\* because its last finalizer was removed
OwnWrite(o, oNext) ==
    \/ oNext = o
    \/ Stored(o) /\ o.deleting /\ oNext.life = "removed"
    \/ /\ Stored(o) /\ Stored(oNext)
       /\ [oNext EXCEPT !.finalizers = o.finalizers, !.status = o.status] = o

\* the child Resource after a Binding pass is the child before it, or was
\* absent and has been created for this Binding
ChildWrite(b, child, childNext) ==
    \/ childNext = child
    \/ /\ ~Stored(child) /\ Stored(childNext)
       /\ childNext.owner = b.name
       /\ childNext.status = ResourceStatus0

\* a step of the user, of another controller or of the clock; every other
\* step is one Reconcile invocation, and its report names the reconciler and
\* the object
EnvironmentStep == Tick \/ DeleteObject \/ ForeignFinalizerRemoved \/ EditSpec

C22_CreateSiteOnceUnderWriteRaces ==
    [][(/\ last.kind = "Tunnel" /\ last.outcome = "Ready"
        /\ "CreateSite" \in CallOps(last.calls)
        /\ Stored(tun) /\ CreateMode(tun))
          => cp'.CreateSite = cp.CreateSite]_vars

\* the status st names the organization entry e under the binding mode
NamesOrganization(st, e, mode) ==
    /\ st.OrganizationID = e.OrgID
    /\ st.OrganizationName = e.Name
    /\ st.Subnet = e.Subnet
    /\ st.BindingMode = mode

\* what the pass r of the organization o has to publish when the
\* list-organizations call answered with the list orgs
SelectsOrganization(o, orgs, r) ==
    LET matching == {e \in Range(orgs) : e.OrgID = o.spec.OrganizationID}
    IN  /\ r.step = "publish" /\ r.write = "status"
        /\ IF o.spec.OrganizationID # ""
           THEN IF matching # {}
                THEN \E e \in matching : NamesOrganization(r.obj.status, e, "Bound")
                ELSE /\ r.outcome = "Error"
                     /\ r.obj.status.OrganizationID = o.status.OrganizationID
           ELSE IF orgs # <<>>
                THEN NamesOrganization(r.obj.status, orgs[1], "Discovered")
                ELSE r.outcome = "Error"

\* C23: in a pass whose list-organizations call succeeds, an explicit
\* spec.organizationId selects the list entry with that id (status id, name
\* and subnet are that entry's, mode Bound), and the pass ends in Error with
\* the status id unchanged when no entry has it; without an explicit id the
\* first entry is selected (mode Discovered), and the pass ends in Error
\* when the list is empty.  Checked on every reachable object against every
\* answer of the control plane.
C23_OrganizationSelection ==
    [](Converging(org, OrganizationFinalizerName) =>
          \A in \in OrgInputs(focus = "Organization") :
              (in.secret /\ in.orgs.ok)
                 => SelectsOrganization(org, in.orgs.data, OrganizationReconcile(org, in)))

\* C23 witness: an Organization without an explicit id has discovered org2,
\* the first of the two organizations listed
C23_Witness ==
    /\ last.kind = "Organization" /\ last.outcome = "Ready" /\ ~last.err
    /\ Stored(org) /\ org.spec.OrganizationID = ""
    /\ NamesOrganization(org.status, Org2, "Discovered")

\* the default domain a pass has to leave in status: the id of the entry the
\* selector matches, by id before by base domain; without a match the
\* default held before; and when that is empty the first verified entry
ExpectedDefault(sel, inv, before) ==
    LET byID == {i \in DOMAIN inv : inv[i].DomainID = sel}
        byBase == {i \in DOMAIN inv : inv[i].BaseDomain = sel}
        verified == {i \in DOMAIN inv : inv[i].Verified}
        resolved == IF sel # "" /\ byID # {} THEN sel
                    ELSE IF sel # "" /\ byBase # {} THEN inv[Min(byBase)].DomainID
                    ELSE before
    IN  IF resolved # "" THEN resolved
        ELSE IF verified # {} THEN inv[Min(verified)].DomainID
        ELSE ""

\* C24: in every pass whose list-domains call succeeds, the configured
\* default-domain selector is matched against the listed inventory by exact
\* domain id first and by exact base domain second, and the match becomes
\* the resolved default; without a match the pass still ends Ready and the
\* default resolved before is kept; only a default that is still empty is
\* set to the first listed entry flagged verified.  Checked on every
\* reachable Organization against every inventory.
C24_DefaultDomainResolution ==
    [](\A inv \in DefaultInventories :
          LET r == OrganizationReconcile(org, DefaultInput(inv))
          IN  /\ r.outcome = "Ready"
              /\ Called(r, "ListDomains")
              /\ r.obj.status.DefaultDomainID
                    = ExpectedDefault(org.spec.DefaultDomain, inv, org.status.DefaultDomainID))

\* C24 witness: the selector c.com matches nothing in the inventory just
\* listed, which holds the verified domain d2 only; the pass has ended Ready
\* and the default d1 resolved by an earlier pass is still in status
C24_Witness ==
    /\ last.kind = "Organization" /\ last.outcome = "Ready"
    /\ org.spec.DefaultDomain = "c.com"
    /\ org.status.Domains = <<Domain("d2", "a.com", TRUE)>>
    /\ org.status.DefaultDomainID = "d1"

\* the list orgs holds an organization for the spec: the one it names, or any
\* when it names none
SelectionSucceeds(spec, orgs) ==
    /\ orgs.ok
    /\ IF spec.OrganizationID # ""
       THEN \E e \in Range(orgs.data) : e.OrgID = spec.OrganizationID
       ELSE orgs.data # <<>>

\* C25: an Organization pass ends Ready exactly when the credential lookup,
\* the organization selection and list-domains all succeed, whether or not a
\* default domain was resolved; the status such a pass writes holds as its
\* domain inventory the list returned by list-domains in that pass, entry by
\* entry in the same order, in place of the inventory held before.  Checked
\* on every reachable object against every answer of the collaborators.
C25_ReadinessAndInventory ==
    [](Converging(org, OrganizationFinalizerName) =>
          \A in \in OrgInputs(focus = "Organization") :
              LET r == OrganizationReconcile(org, in)
              IN  /\ r.outcome = "Ready"
                     <=> (in.secret /\ SelectionSucceeds(org.spec, in.orgs) /\ in.domains.ok)
                  /\ r.outcome = "Ready"
                     => /\ r.obj.status.Domains = in.domains.data
                        /\ Persist(org, r, TRUE).status.Domains = in.domains.data
                        /\ Persist(org, r, TRUE).status.Status = "Ready")

\* C25 witness: a pass has ended Ready on an inventory whose only domain is
\* not verified, so that no default domain is resolved
C25_Witness ==
    /\ last.kind = "Organization" /\ last.outcome = "Ready" /\ ~last.err
    /\ Stored(org) /\ org.status.Status = "Ready"
    /\ org.status.Domains = Inventory2
    /\ org.status.DefaultDomainID = ""

\* the status st holds every field of the site
HoldsSite(st, site) ==
    /\ st.SiteID = site.SiteID
    /\ st.NiceID = site.NiceID
    /\ st.SiteName = site.Name
    /\ st.SiteType = site.Type
    /\ st.Subnet = site.Subnet
    /\ st.Address = site.Address
    /\ st.Online = site.Online
    /\ st.Endpoint = site.Endpoint

\* the site the latest create-site call returned
CreatedSite(mode) ==
    Site(cp.CreateSite, "nice-" \o Itoa(cp.CreateSite), tun.spec.SiteName,
         tun.spec.SiteType, mode)

\* C26: after a pass in which create-site succeeded and whose status write
\* landed, the Tunnel's persisted status holds every field of the site the
\* call returned (site id, nice id, name, type, subnet, address, online,
\* endpoint) and binding mode Created.
C26_CreatePersistsEveryField ==
    (/\ last.kind = "Tunnel" /\ last.outcome = "Ready" /\ ~last.err
     /\ "CreateSite" \in CallOps(last.calls)
     /\ Stored(tun))
        => /\ tun.status.BindingMode = "Created"
           /\ \E mode \in {"ok", "zero", "offline"} : HoldsSite(tun.status, CreatedSite(mode))

\* the tunnel's spec names an existing site
BindMode(t) == t.spec.SiteID # Nil \/ t.spec.NiceID # ""

\* the one lookup a bind-mode pass has to issue: by the numeric id when spec
\* carries one, else by the nice id under the Organization's id
BindLookup(t, o) ==
    IF t.spec.SiteID # Nil
    THEN Call("GetSiteByID", [siteID |-> Deref(t.spec.SiteID)])
    ELSE Call("GetSiteByNiceID",
              [orgID |-> o.status.OrganizationID, niceID |-> t.spec.NiceID])

\* the site the control plane answers that lookup with
LookedUpSite(t, mode) ==
    IF t.spec.SiteID # Nil
    THEN Site(Deref(t.spec.SiteID), "wolf", "bound", "newt", mode)
    ELSE Site(7, t.spec.NiceID, "bound", "newt", mode)

\* C27: a bind-mode Tunnel pass that reaches the site step issues exactly
\* one lookup: get-site-by-id with spec.siteId when spec carries a numeric
\* id, also when a nice id is present too (no validation error), else
\* get-site-by-nice-id with the Organization's id; when the lookup succeeds
\* the status written holds every field of the returned site and binding mode
\* Bound, on every pass; when it fails the outcome is Error.  Checked on every
\* reachable Tunnel against every answer of the control plane.
C27_TunnelBindMode ==
    []((/\ Converging(tun, TunnelFinalizerName) /\ BindMode(tun)
        /\ Stored(org) /\ OrganizationOpen(org))
          => \A in \in TunnelInputs(focus = "Tunnel") :
                 LET r == TunnelReconcile(tun, org, cp.CreateSite, in)
                 IN  in.secret
                        => /\ r.calls = <<BindLookup(tun, org)>>
                           /\ IF in.site = "fail"
                              THEN r.outcome = "Error"
                              ELSE /\ r.outcome # "Error"
                                   /\ r.obj.status.BindingMode = "Bound"
                                   /\ HoldsSite(r.obj.status, LookedUpSite(tun, in.site)))

\* C27 witness: a Tunnel whose spec carries both the site id 7 and the nice
\* id wolf has been bound by one get-site-by-id call
C27_Witness ==
    /\ last.kind = "Tunnel" /\ last.outcome = "Ready" /\ ~last.err
    /\ last.calls = <<Call("GetSiteByID", [siteID |-> 7])>>
    /\ Stored(tun) /\ tun.spec.SiteID = {7} /\ tun.spec.NiceID = "wolf"
    /\ tun.status.BindingMode = "Bound" /\ tun.status.SiteID = 7
    /\ tun.status.Endpoint = "edge.example.com"

\* C28: a pass that reaches the create branch (secret read, no resource id in
\* spec or status) sends, for an http Resource with http-config whose domain
\* resolves, exactly one create-resource request with http=true, protocol
\* "tcp", the configured subdomain and the resolved domain id (none when the
\* resolution fails); for a tcp or udp Resource with proxy-config and
\* enable-flag exactly one request with http=false, the protocol of the spec,
\* the configured proxy port and flag; with neither config it sends none and
\* the pass ends in Error
CreateRequests(calls) ==
    {calls[i].req : i \in {j \in DOMAIN calls : calls[j].op = "CreateResource"}}

ReachesCreate(r, in) ==
    /\ Stored(r) /\ ~r.deleting /\ ResourceFinalizerName \in r.finalizers
    /\ r.spec.ResourceID = "" /\ r.status.ResourceID = ""
    /\ in.secret

BindingPublishes ==
    /\ last'.kind = "Binding" /\ last'.step = "publish"
    /\ svc' = svc

ServiceFetched == svc.exists
OrganizationReadAsReady == Stored(org) /\ org.status.Status = "Ready"
TunnelReadAsReady ==
    /\ bnd.spec.TunnelRef # Nil
    /\ Stored(tun) /\ tun.status.Status = "Ready"
ChildReadAsReady ==
    /\ Stored(res[ChildName(BindingName)])
    /\ res[ChildName(BindingName)].status.Status = "Ready"

\* C29: a Binding pass reads or creates the Resource under the generated
\* name only when, in that pass, it fetched the Service and read the
\* Organization and the Tunnel as Ready; the first gate that fails decides
\* the outcome: Error for a missing Service, Organization or Tunnel, Waiting
\* for an Organization or Tunnel that is not Ready; and a pass whose write of
\* Ready is accepted read the child as Ready and stores the child's URL and
\* proxy endpoint
C29_BindingGateOrdering ==
    [][BindingPublishes =>
         LET child == res[ChildName(BindingName)]
             childNext == res'[ChildName(BindingName)]
         IN  /\ ("Resource" \in last'.reads \/ childNext # child) =>
                   /\ {"Service", "Organization", "Tunnel"} \subseteq last'.reads
                   /\ ServiceFetched /\ OrganizationReadAsReady /\ TunnelReadAsReady
             /\ ~ServiceFetched => last'.outcome = "Error"
             /\ (ServiceFetched /\ ~Stored(org)) => last'.outcome = "Error"
             /\ (ServiceFetched /\ Stored(org) /\ ~OrganizationReadAsReady) =>
                   last'.outcome = "Waiting"
             /\ (ServiceFetched /\ OrganizationReadAsReady
                   /\ (bnd.spec.TunnelRef = Nil \/ ~Stored(tun))) =>
                   last'.outcome = "Error"
             /\ (ServiceFetched /\ OrganizationReadAsReady
                   /\ bnd.spec.TunnelRef # Nil /\ Stored(tun) /\ ~TunnelReadAsReady) =>
                   last'.outcome = "Waiting"
             /\ (last'.outcome = "Ready" /\ ~last'.err) =>
                   /\ ChildReadAsReady
                   /\ "Resource" \in last'.reads
                   /\ bnd'.status.Status = "Ready"
                   /\ bnd'.status.URL = child.status.URL
                   /\ bnd'.status.ProxyEndpoint = child.status.ProxyEndpoint]_vars

\* a Binding written Ready with the URL of the child it read
C29_Witness ==
    /\ last.kind = "Binding" /\ last.outcome = "Ready" /\ ~last.err
    /\ {"Service", "Organization", "Tunnel", "Resource"} \subseteq last.reads
    /\ bnd.status.Status = "Ready"
    /\ bnd.status.URL # ""
    /\ bnd.status.URL = res[ChildName(BindingName)].status.URL

AutoUpdate(b) == b.spec.AutoUpdateTargets = Nil \/ Deref(b.spec.AutoUpdateTargets)

\* C30: with auto-update unset or true and every gate passed, a pass whose
\* read of the Endpoints fails still ends Ready and leaves the recorded list
\* as it was; a pass whose read succeeds and whose write is accepted records
\* the addresses of the Endpoints; with auto-update false no step changes the
\* recorded list
C30_EndpointsAutoUpdateNonFatal ==
    [][/\ (Stored(bnd) /\ ~AutoUpdate(bnd)) =>
            bnd'.status.ServiceEndpoints = bnd.status.ServiceEndpoints
       /\ (/\ BindingPublishes /\ AutoUpdate(bnd)
           /\ ServiceFetched /\ OrganizationReadAsReady /\ TunnelReadAsReady
           /\ ChildReadAsReady) =>
             /\ last'.outcome = "Ready"
             /\ "Endpoints" \in last'.reads
             /\ ~svc.endpointsOK =>
                   bnd'.status.ServiceEndpoints = bnd.status.ServiceEndpoints
             /\ (svc.endpointsOK /\ ~last'.err) =>
                   bnd'.status.ServiceEndpoints = svc.addresses
             /\ ~last'.err => bnd'.status.Status = "Ready"]_vars

\* a Binding that ended its pass Ready while the read of the Endpoints fails
\* and that still holds the two addresses an earlier pass recorded
C30_Witness ==
    /\ last.kind = "Binding" /\ last.outcome = "Ready" /\ ~last.err
    /\ "Endpoints" \in last.reads
    /\ AutoUpdate(bnd)
    /\ ~svc.endpointsOK /\ svc.addresses = <<>>
    /\ bnd.status.Status = "Ready"
    /\ bnd.status.ServiceEndpoints = <<"10.1.0.7", "10.1.0.8">>

\* the create-target requests among the calls of a pass
TargetRequests(calls) ==
    {calls[i].req : i \in {j \in DOMAIN calls : calls[j].op = "CreateTarget"}}

\* C31: a Resource pass calls create-target only when the persisted status
\* holds no target id and the pass resolved a non-empty resource id, with
\* ip, port, method and enabled of the spec, addressed to that resource id;
\* and over the passes of one Resource whose store writes succeed
\* create-target is called at most once.  The second half is stated on
\* consecutive steps: after a pass whose create-target call returned without
\* error (the pass published Ready) and whose status write was accepted, the
\* next step calls create-target for that Resource no more.
C31_TargetResolution ==
    [][/\ (~EnvironmentStep /\ last'.kind = "Resource") =>
            \A q \in TargetRequests(last'.calls) :
               LET r == res[last'.name]
               IN  /\ r.status.TargetID = ""
                   /\ q.resourceID # ""
                   /\ q.IP = r.spec.Target.IP /\ q.Port = r.spec.Target.Port
                   /\ q.Method = r.spec.Target.Method
                   /\ q.Enabled = Deref(r.spec.Enabled)
       /\ (/\ last.kind = "Resource" /\ last.outcome = "Ready" /\ ~last.err
           /\ "CreateTarget" \in CallOps(last.calls)) =>
             cp'.CreateTarget[last.name] = cp.CreateTarget[last.name]]_vars

\* the status and the Ready condition of the object o agree with each other
\* and with the generation of o
StatusAgrees(o) ==
    /\ ReadyConditions(o) # {}
    /\ LET c == ReadyCondition(o)
       IN  /\ c.Status \in {"True", "False"}
           /\ c.Status = "True" <=> o.status.Status = "Ready"
           /\ o.status.Status \in {"Waiting", "Error"} => c.Status = "False"
           /\ c.Reason = "ReconcileSuccess" <=> c.Status = "True"
           /\ o.status.ObservedGeneration = o.generation
           /\ c.ObservedGeneration = o.generation

\* C32: for every kind, an accepted status write leaves a Ready condition that
\* is True exactly when status.status is "Ready", whose reason is
\* ReconcileSuccess exactly when it is True, and the written status and
\* condition carry the generation of the object as their observed generation
C32_StatusConditionAgreement ==
    [][(~EnvironmentStep /\ last'.write = "status" /\ ~last'.err) =>
         /\ last'.kind = "Organization" => StatusAgrees(org')
         /\ last'.kind = "Tunnel" => StatusAgrees(tun')
         /\ last'.kind = "Resource" => StatusAgrees(res'[last'.name])
         /\ last'.kind = "Binding" => StatusAgrees(bnd')]_vars

\* a Tunnel whose spec was edited and whose next pass wrote Waiting: the
\* condition is False with the generation of the edit
C32_Witness ==
    /\ last.kind = "Tunnel" /\ last.outcome \in {"Waiting", "Error"} /\ ~last.err
    /\ Stored(tun) /\ tun.generation = 2
    /\ tun.status.Status = last.outcome
    /\ tun.status.ObservedGeneration = 2
    /\ ReadyConditions(tun) # {}
    /\ ReadyCondition(tun).Status = "False"
    /\ ReadyCondition(tun).Reason = "ReconcileError"
    /\ ReadyCondition(tun).ObservedGeneration = 2

\* C33: every status.status value a Binding pass writes, and so every value
\* the store holds for a Binding, is a member of the enum declared for the
\* field
C33_BindingStatusInEnum ==
    /\ (last.kind = "Binding" /\ last.write = "status") =>
          last.outcome \in BindingStatusEnum
    /\ (Stored(bnd) /\ bnd.status.Status # "") =>
          bnd.status.Status \in BindingStatusEnum

\* the pass reported by last' ran on the object o, which carries a deletion
\* marker: it read no dependency, called nothing and left the status alone
DeletionOnly(o, oNext) ==
    (Stored(o) /\ o.deleting) =>
        /\ last'.reads = {}
        /\ last'.calls = <<>>
        /\ last'.write # "status"
        /\ last'.outcome = ""
        /\ cp' = cp
        /\ Stored(oNext) => oNext.status = o.status

\* C34: for every kind, a pass on an object that carries a deletion marker
\* reads no dependency, issues no control-plane call and writes no status,
\* whatever the status and spec of the object
C34_DeletionHasPriority ==
    [][~EnvironmentStep =>
         /\ last'.kind = "Organization" => DeletionOnly(org, org')
         /\ last'.kind = "Tunnel" => DeletionOnly(tun, tun')
         /\ last'.kind = "Resource" => DeletionOnly(res[last'.name], res'[last'.name])
         /\ last'.kind = "Binding" => DeletionOnly(bnd, bnd')]_vars

\* a Ready Resource holding both ids was marked for deletion while another
\* controller's finalizer holds it; its pass removed its own finalizer only
C34_Witness ==
    /\ last.kind = "Resource" /\ last.name = "web" /\ last.step = "deletion"
    /\ last.calls = <<>> /\ last.reads = {}
    /\ Stored(res["web"]) /\ res["web"].deleting
    /\ res["web"].finalizers = {ForeignFinalizer}
    /\ res["web"].status.Status = "Ready"
    /\ res["web"].status.ResourceID # "" /\ res["web"].status.TargetID # ""

\* C35: after an Organization pass that ended Ready and whose write was
\* accepted, the default-domain id in status is empty or the id of an entry
\* of the inventory that pass stored
C35_DefaultDomainStaysValid ==
    (/\ last.kind = "Organization" /\ last.outcome = "Ready" /\ ~last.err
     /\ Stored(org)) =>
        \/ org.status.DefaultDomainID = ""
        \/ \E i \in DOMAIN org.status.Domains :
              org.status.Domains[i].DomainID = org.status.DefaultDomainID


\* C36: in every reachable state an Organization whose persisted status is
\* Ready has a non-empty external organization id, and a Tunnel whose
\* persisted status is Ready has a non-zero external site id, whatever the
\* control plane answered
C36_ReadyImpliesIdentity ==
    /\ (Stored(org) /\ org.status.Status = "Ready") => org.status.OrganizationID # ""
    /\ (Stored(tun) /\ tun.status.Status = "Ready") => tun.status.SiteID # 0

\* C37: for an Organization with no organization id in spec, once a pass has
\* recorded an external organization id in status, no later pass changes
\* that id, whatever order or entries the organization list comes back with
C37_DiscoveredOrganizationStable ==
    [][(/\ Stored(org) /\ Stored(org')
        /\ org.spec.OrganizationID = "" /\ org'.spec.OrganizationID = ""
        /\ org.status.OrganizationID # "") =>
            org'.status.OrganizationID = org.status.OrganizationID]_vars

\* the Tunnel has left Ready
TunnelLost == Stored(tun) /\ tun.status.Status \in {"Waiting", "Error"}

\* the Organization has left Ready, or is gone
OrganizationLost == ~Stored(org) \/ org.status.Status \in {"Waiting", "Error"}

ResourceReadyOf(n) == Stored(res[n]) /\ res[n].status.Status = "Ready"

\* C38: when a Tunnel's persisted status has left Ready (Waiting or Error)
\* and stays so after a Resource that references it became Ready, the
\* Resource's persisted status eventually leaves Ready, under fair delivery
\* and with no edit to the Resource; likewise a Ready Tunnel eventually
\* leaves Ready when its Organization has left Ready for good.
C38_LossOfReadinessPropagates ==
    /\ \A n \in ResourceNames :
         (ResourceReadyOf(n) /\ []TunnelLost) ~> ~ResourceReadyOf(n)
    /\ (TunnelReady /\ []OrganizationLost) ~> ~TunnelReady

\* the child Resource carries what its Binding and the Service say
ChildInSync(b, s, c) ==
    /\ Stored(c)
    /\ c.spec.Protocol = b.spec.Protocol
    /\ b.spec.Protocol = "http" => c.spec.HTTPConfig = b.spec.HTTPConfig
    /\ b.spec.Protocol # "http" => c.spec.ProxyConfig = b.spec.ProxyConfig
    /\ b.spec.TunnelRef # Nil /\ c.spec.TunnelRef = Deref(b.spec.TunnelRef)
    /\ c.spec.Target.IP = s.ClusterIP
    /\ c.spec.Target.Port = b.spec.ServicePort

\* C39: whenever a Binding's persisted status is Ready, its child Resource's
\* spec has the Binding's protocol and http/proxy config, references the
\* Binding's Tunnel, and targets the Service's cluster address on the
\* Binding's service port, also for a child that existed before the
\* Binding's first pass and after the Binding spec or the Service changed:
\* every Binding pass that persists Ready leaves the child so
C39_ChildInSyncWithBinding ==
    [][(/\ ~(BindingEdited \/ ServiceRecreated)
        /\ last'.kind = "Binding" /\ last'.outcome = "Ready" /\ ~last'.err
        /\ Stored(bnd') /\ bnd'.status.Status = "Ready") =>
            ChildInSync(bnd', svc', res'[ChildName(BindingName)])]_vars

\* C40: in every reachable state of a Resource, a non-empty status target id
\* implies a non-empty status resource id: no pass persists a target id
\* without the resource id the target was created under
C40_TargetImpliesResource ==
    \A n \in ResourceNames :
        (Stored(res[n]) /\ res[n].status.TargetID # "") => res[n].status.ResourceID # ""

\* C40 witness: a pass has created the resource and its target and persisted
\* both ids
C40_Witness ==
    /\ last.kind = "Resource" /\ last.name = "web" /\ ~last.err
    /\ {"CreateResource", "CreateTarget"} \subseteq CallOps(last.calls)
    /\ Stored(res["web"])
    /\ res["web"].status.TargetID # ""
    /\ res["web"].status.ResourceID # ""

====
